---- MODULE Spec2Model ----
(***************************************************************************)
(* xordb: a semantic cache over hyperdimensional bit vectors.              *)
(*                                                                         *)
(* The module models                                                       *)
(*   - package hdc: the bit-packed Vector and its primitives (vector.go),  *)
(*     the seeded random vector (random.go), text normalisation and the    *)
(*     n-gram encoder (encoder.go, functional revision);                   *)
(*   - package cache: the LRU semantic cache (cache.go), with its mutex,   *)
(*     its exact-key index, its container/list LRU list and its counters,  *)
(*     driven by a bounded number of goroutines.                           *)
(*                                                                         *)
(* Widths are reduced so that TLC can enumerate: a machine word has        *)
(* WordBits bits instead of 64 and a seed SeedBits bits instead of 64; the *)
(* arithmetic keeps the code's shape (shifts, masks, wrap-around).         *)
(* A similarity, 1 - diff/dims in the code, is kept as the integer         *)
(* dims - diff, i.e. in units of 1/dims; a threshold t in (0, 1] is kept   *)
(* as the least integer n with n/dims >= t, so that s >= t is an integer   *)
(* comparison.  simSum is kept in the same unit.                           *)
(***************************************************************************)
EXTENDS Integers, Sequences, FiniteSets, TLC

\* ------------------------------------------------------------------------
\* Bounds of the model
\* ------------------------------------------------------------------------

\* hypervector dimension used by the modelled encoder (Config.Dims)
Dims == 6

\* largest capacity a cache is built with
MaxCap == 2

\* number of cache operations invoked in one behaviour
MaxOps == 3

\* ------------------------------------------------------------------------
\* Reduced machine widths
\* ------------------------------------------------------------------------

\* bits in one word of Vector.data (uint64 in the code)
WordBits == 4

\* bits in a seed (uint64 in the code)
SeedBits == 16

RECURSIVE Pow2(_)
Pow2(n) == IF n = 0 THEN 1 ELSE 2 * Pow2(n - 1)

\* a >> n and a << n on unsigned words of w bits
Shr(a, n) == a \div Pow2(n)
Shl(a, n, w) == (a * Pow2(n)) % Pow2(w)

RECURSIVE AndW(_, _, _)
AndW(a, b, n) ==
    IF n = 0 THEN 0
    ELSE (IF a % 2 = 1 /\ b % 2 = 1 THEN 1 ELSE 0) + 2 * AndW(a \div 2, b \div 2, n - 1)

RECURSIVE OrW(_, _, _)
OrW(a, b, n) ==
    IF n = 0 THEN 0
    ELSE (IF a % 2 = 1 \/ b % 2 = 1 THEN 1 ELSE 0) + 2 * OrW(a \div 2, b \div 2, n - 1)

RECURSIVE XorW(_, _, _)
XorW(a, b, n) ==
    IF n = 0 THEN 0
    ELSE ((a + b) % 2) + 2 * XorW(a \div 2, b \div 2, n - 1)

\* math/bits.OnesCount64
RECURSIVE OnesCount(_)
OnesCount(a) == IF a = 0 THEN 0 ELSE (a % 2) + OnesCount(a \div 2)

\* ------------------------------------------------------------------------
\* package hdc: Vector  (src/hdc/vector.go)
\* A Vector is [dims, data]; data[1..numWords(dims)] are the words, word i
\* of the model being data[i-1] of the code.
\* ------------------------------------------------------------------------

numWords(dims) == (dims + (WordBits - 1)) \div WordBits

\* a zeroPadding that leaves the last word as it is
zeroPadding_Skip(data, dims) == data

zeroPadding(data, dims) ==
    LET rem == dims % WordBits
    IN  IF rem # 0
        THEN [data EXCEPT ![Len(data)] = AndW(data[Len(data)], Pow2(rem) - 1, WordBits)]
        ELSE data

\* FromWords(dims, data): a copy of data with the padding cleared
\* (dims > 0, Len(data) = numWords(dims))
FromWords(dims, data) ==
    [dims |-> dims, data |-> zeroPadding([i \in 1..Len(data) |-> data[i]], dims)]

\* New(dims): the zero vector (dims > 0)
New(dims) == [dims |-> dims, data |-> [i \in 1..numWords(dims) |-> 0]]

Clone(v) == [dims |-> v.dims, data |-> [i \in 1..Len(v.data) |-> v.data[i]]]

\* a Permute that puts bit 0 at the top of the last word
Permute_TopOfWord(v) ==
    LET w == Len(v.data)
        bit0 == AndW(v.data[1], 1, WordBits)
    IN  [dims |-> v.dims,
         data |-> [i \in 1..w |->
                     IF i < w
                     THEN OrW(Shr(v.data[i], 1),
                              Shl(AndW(v.data[i + 1], 1, WordBits), WordBits - 1, WordBits),
                              WordBits)
                     ELSE OrW(Shr(v.data[w], 1), Shl(bit0, WordBits - 1, WordBits), WordBits)]]

\* Permute: result[i] = v[(i+1) % dims], computed word by word
Permute(v) ==
    LET w == Len(v.data)
        bit0 == AndW(v.data[1], 1, WordBits)
        highBit == (v.dims - 1) % WordBits
    IN  [dims |-> v.dims,
         data |-> [i \in 1..w |->
                     IF i < w
                     THEN OrW(Shr(v.data[i], 1),
                              Shl(AndW(v.data[i + 1], 1, WordBits), WordBits - 1, WordBits),
                              WordBits)
                     ELSE OrW(Shr(v.data[w], 1), Shl(bit0, highBit, WordBits), WordBits)]]

\* a requireSameDims that compares the lengths of the word slices
requireSameDims_SameWords(vecs) ==
    \A i \in 1..Len(vecs) : Len(vecs[i].data) = Len(vecs[1].data)

\* requireSameDims: TRUE iff the call does not panic
requireSameDims(vecs) == \A i \in 1..Len(vecs) : vecs[i].dims = vecs[1].dims

\* bit b (0-based) of the whole vector, as Bundle reads it: word >> b & 1
BitAt(v, i) == Shr(v.data[(i \div WordBits) + 1], i % WordBits) % 2

RECURSIVE SumBits(_, _, _)
SumBits(vecs, i, k) ==
    IF k = 0 THEN 0 ELSE BitAt(vecs[k], i) + SumBits(vecs, i, k - 1)

RECURSIVE WordOfBits(_, _, _, _)
\* the word whose bit b is f[base + b], for the bits below dims
WordOfBits(f, base, b, dims) ==
    IF b = WordBits \/ base + b >= dims THEN 0
    ELSE f[base + b] + 2 * WordOfBits(f, base, b + 1, dims)

\* a Bundle whose ties resolve to 1
Bundle_TiesToOne(vecs) ==
    LET dims == vecs[1].dims
        threshold == Len(vecs) \div 2
        counts == [i \in 0..(dims - 1) |-> SumBits(vecs, i, Len(vecs))]
        set == [i \in 0..(dims - 1) |-> IF counts[i] >= threshold THEN 1 ELSE 0]
    IN  [dims |-> dims,
         data |-> [w \in 1..numWords(dims) |-> WordOfBits(set, (w - 1) * WordBits, 0, dims)]]

\* Bundle(vecs...): majority vote, ties to 0 (Len(vecs) > 0, same dims)
Bundle(vecs) ==
    LET dims == vecs[1].dims
        threshold == Len(vecs) \div 2
        counts == [i \in 0..(dims - 1) |-> SumBits(vecs, i, Len(vecs))]
        set == [i \in 0..(dims - 1) |-> IF counts[i] > threshold THEN 1 ELSE 0]
    IN  [dims |-> dims,
         data |-> [w \in 1..numWords(dims) |-> WordOfBits(set, (w - 1) * WordBits, 0, dims)]]

\* a Bind that ORs
Bind_Or(a, b) ==
    [dims |-> a.dims, data |-> [i \in 1..numWords(a.dims) |-> OrW(a.data[i], b.data[i], WordBits)]]

\* Bind(a, b): XOR (same dims)
Bind(a, b) ==
    [dims |-> a.dims, data |-> [i \in 1..numWords(a.dims) |-> XorW(a.data[i], b.data[i], WordBits)]]

RECURSIVE DiffBits(_, _, _)
DiffBits(a, b, i) ==
    IF i = 0 THEN 0
    ELSE OnesCount(XorW(a.data[i], b.data[i], WordBits)) + DiffBits(a, b, i - 1)

\* a Similarity that divides by the bits of the words, not by dims
Similarity_WordWidth(a, b) == Len(a.data) * WordBits - DiffBits(a, b, Len(a.data))

\* Similarity(a, b) = 1 - diff/dims, here dims - diff in units of 1/dims
Similarity(a, b) == a.dims - DiffBits(a, b, Len(a.data))

\* ------------------------------------------------------------------------
\* Seeded random vector  (src/hdc/random.go)
\* The code fills the words from math/rand seeded with the seed.  The model
\* keeps what the callers rely on (a deterministic stream, one word per
\* Uint64 call, padding cleared afterwards) and replaces the generator by a
\* small linear congruential one.
\* ------------------------------------------------------------------------

\* one step of the stand-in generator
RandNext(x) == (x * 75 + 74) % 65537

RECURSIVE RandWords(_, _)
RandWords(x, n) ==
    IF n = 0 THEN <<>>
    ELSE LET y == RandNext(x) IN <<y % Pow2(WordBits)>> \o RandWords(y, n - 1)

Random(dims, seed) ==
    [dims |-> dims, data |-> zeroPadding(RandWords(seed % 65537, numWords(dims)), dims)]

\* ------------------------------------------------------------------------
\* Text normalisation  (normalize.go, kept in src/hdc/hdc_test.go:275-328)
\* A text is a sequence of code points.
\* ------------------------------------------------------------------------

\* an IsSpace that knows the ASCII whitespace only
IsSpace_Ascii(r) == r \in {9, 10, 11, 12, 13, 32}

\* unicode.IsSpace, restricted to Latin-1
IsSpace(r) == r \in {9, 10, 11, 12, 13, 32, 133, 160}

\* unicode.IsPunct, restricted to ASCII
IsPunct(r) ==
    r \in {33, 34, 35, 37, 38, 39, 40, 41, 42, 44, 45, 46, 47, 58, 59, 63, 64,
           91, 92, 93, 95, 123, 125}

\* strings.ToLower, restricted to ASCII letters
ToLowerRune(r) == IF r >= 65 /\ r <= 90 THEN r + 32 ELSE r
ToLower(text) == [i \in 1..Len(text) |-> ToLowerRune(text[i])]

RECURSIVE TrimLeft(_)
TrimLeft(s) == IF s # <<>> /\ IsSpace(Head(s)) THEN TrimLeft(Tail(s)) ELSE s

RECURSIVE TrimRight(_)
TrimRight(s) ==
    IF s # <<>> /\ IsSpace(s[Len(s)]) THEN TrimRight(SubSeq(s, 1, Len(s) - 1)) ELSE s

\* strings.TrimSpace
TrimSpace(s) == TrimRight(TrimLeft(s))

IsDelimiter(r) == r \in {46, 63, 33, 10}

RECURSIVE splitLoop(_, _, _, _)
splitLoop(text, i, cur, out) ==
    IF i > Len(text)
    THEN IF TrimSpace(cur) # <<>> THEN Append(out, TrimSpace(cur)) ELSE out
    ELSE IF IsDelimiter(text[i])
         THEN splitLoop(text, i + 1, <<>>,
                        IF TrimSpace(cur) # <<>> THEN Append(out, TrimSpace(cur)) ELSE out)
         ELSE splitLoop(text, i + 1, Append(cur, text[i]), out)

\* splitSentences: split lowercased text on . ? ! and line feed
splitSentences(text) == splitLoop(text, 1, <<>>, <<>>)

RECURSIVE normalizeLoop(_, _, _, _, _)
normalizeLoop(text, stripPunct, i, b, prevSpace) ==
    IF i > Len(text) THEN b
    ELSE IF IsSpace(text[i])
         THEN IF ~prevSpace
              THEN normalizeLoop(text, stripPunct, i + 1, Append(b, 32), TRUE)
              ELSE normalizeLoop(text, stripPunct, i + 1, b, prevSpace)
         ELSE IF stripPunct /\ IsPunct(text[i])
              THEN normalizeLoop(text, stripPunct, i + 1, b, prevSpace)
              ELSE normalizeLoop(text, stripPunct, i + 1, Append(b, text[i]), FALSE)

\* normalizeSegment: collapse whitespace, optionally strip punctuation, trim
normalizeSegment(text, stripPunct) ==
    TrimSpace(normalizeLoop(text, stripPunct, 1, <<>>, FALSE))

\* ------------------------------------------------------------------------
\* N-gram encoder  (src/hdc/encoder.go)
\* cfg is a Config record [Dims, NGramSize, StripPunctuation, LongTextThresh,
\* ChunkSize, Seed].
\* ------------------------------------------------------------------------

\* the multiplier 2654435761 of symbolTable.get, reduced modulo 2^SeedBits
KnuthMul == 31153

\* the seed read as seed XOR (r * 2654435761 + 1)
symSeed_XorLast(seed, r) ==
    XorW(seed, ((r * KnuthMul) + 1) % Pow2(SeedBits), SeedBits)

\* the seed of the symbol vector of rune r: t.seed^uint64(r)*2654435761+1.
\* In Go * binds tighter than ^ and +, which share one precedence level and
\* associate to the left.
symSeed(seed, r) ==
    (XorW(seed, (r * KnuthMul) % Pow2(SeedBits), SeedBits) + 1) % Pow2(SeedBits)

\* symbolTable.get: the vector of rune r (the table only memoises it)
symGet(cfg, r) == Random(cfg.Dims, symSeed(cfg.Seed, r))

RECURSIVE PermuteN(_, _)
PermuteN(v, n) == IF n = 0 THEN v ELSE PermuteN(Permute(v), n - 1)

RECURSIVE windowLoop(_, _, _, _)
windowLoop(cfg, runes, i, result) ==
    IF i > Len(runes) THEN result
    ELSE windowLoop(cfg, runes, i + 1,
                    Bind(result, PermuteN(symGet(cfg, runes[i]), i - 1)))

\* encodeWindow: sym(r0) XOR permute^1(sym(r1)) XOR ...
encodeWindow(cfg, runes) == windowLoop(cfg, runes, 2, symGet(cfg, runes[1]))

\* encodeRunes: sliding n-gram window, per-rune bundle when shorter than n
encodeRunes(cfg, runes) ==
    LET n == cfg.NGramSize
    IN  IF Len(runes) < n
        THEN IF Len(runes) = 0 THEN New(cfg.Dims)
             ELSE Bundle([i \in 1..Len(runes) |-> symGet(cfg, runes[i])])
        ELSE Bundle([i \in 1..(Len(runes) - n + 1) |->
                        encodeWindow(cfg, SubSeq(runes, i, i + n - 1))])

Min(a, b) == IF a < b THEN a ELSE b

RECURSIVE chunkLoop(_, _, _, _)
\* the for loop of encodeChunked; start is 0-based as in the code
chunkLoop(cfg, runes, start, vecs) ==
    IF start >= Len(runes) THEN vecs
    ELSE LET end == Min(start + cfg.ChunkSize, Len(runes))
             chunk == SubSeq(runes, start + 1, end)
             vecs2 == IF Len(chunk) >= cfg.NGramSize \/ Len(vecs) = 0
                      THEN Append(vecs, encodeRunes(cfg, chunk))
                      ELSE vecs
         IN  IF end = Len(runes) THEN vecs2
             ELSE chunkLoop(cfg, runes, start + cfg.ChunkSize \div 2, vecs2)

encodeChunked(cfg, runes) ==
    LET vecs == chunkLoop(cfg, runes, 0, <<>>)
    IN  IF Len(vecs) = 0 THEN New(cfg.Dims) ELSE Bundle(vecs)

RECURSIVE sentenceLoop(_, _, _, _)
sentenceLoop(cfg, sentences, i, vecs) ==
    IF i > Len(sentences) THEN vecs
    ELSE LET s == normalizeSegment(sentences[i], cfg.StripPunctuation)
         IN  IF s = <<>> THEN sentenceLoop(cfg, sentences, i + 1, vecs)
             ELSE sentenceLoop(cfg, sentences, i + 1,
                      Append(vecs, IF Len(s) > cfg.LongTextThresh
                                   THEN encodeChunked(cfg, s)
                                   ELSE encodeRunes(cfg, s)))

\* an Encode whose zero vector for the empty text is sized in whole words
Encode_EmptyWholeWords(cfg, text) ==
    IF text = <<>> THEN New(numWords(cfg.Dims) * WordBits + 1)
    ELSE LET vecs == sentenceLoop(cfg, splitSentences(ToLower(text)), 1, <<>>)
         IN  IF Len(vecs) = 0 THEN New(cfg.Dims) ELSE Bundle(vecs)

\* NGramEncoder.Encode
Encode(cfg, text) ==
    IF text = <<>> THEN New(cfg.Dims)
    ELSE LET vecs == sentenceLoop(cfg, splitSentences(ToLower(text)), 1, <<>>)
         IN  IF Len(vecs) = 0 THEN New(cfg.Dims) ELSE Bundle(vecs)

\* the defaults of the facade (src/xdb.go)
DefaultNGram == 3
DefaultLongTextThresh == 200
DefaultChunkSize == 128

\* the encoder of the modelled cache: xordb.New(WithDims(Dims))
CacheCfg ==
    [Dims |-> Dims, NGramSize |-> DefaultNGram, StripPunctuation |-> FALSE,
     LongTextThresh |-> DefaultLongTextThresh, ChunkSize |-> DefaultChunkSize, Seed |-> 0]

\* ------------------------------------------------------------------------
\* package cache  (src/cache/cache.go)
\* An entry is [key, vec, value]; its ts field (time.Now() at insertion and
\* update) is written and never read, and is left out.  The encoder of the
\* cache is the n-gram encoder, so every stored vector has Dims dimensions
\* and Similarity never panics inside a scan.
\* ------------------------------------------------------------------------

\* the goroutines that use the cache
Threads == {1, 2}

\* "abc", "Abc" (normalises to "abc"), "acb", "a"
Keys == {<<97, 98, 99>>, <<65, 98, 99>>, <<97, 99, 98>>, <<97>>}

\* the values stored; a value is opaque to the cache
Values == {"v1", "v2"}

\* Options.Threshold, in units of 1/Dims: 0.5 and 1.0
Thresholds == {Dims \div 2, Dims}

\* nil value, nil *list.Element, absent key
Nil == "nil"
NilElem == 0
NoKey == <<0>>

\* c.enc.Encode(key) for the keys of the model
EncOf == [k \in Keys |-> Encode(CacheCfg, k)]

VARIABLES
    c,        \* the Cache struct: lru, elems, index, threshold, capacity,
              \* hits, misses, sets, simSum
    mu,       \* c.mu: the goroutine holding it, or 0
    pc,       \* where each goroutine is
    arg,      \* the key, value and encoded vector of each goroutine's call
    last,     \* what the operation that left its critical section last returned
    recency,  \* history: the stored keys, most recently stored/updated/hit first
    done,     \* history: the Get and Set calls that have returned, and the sum
              \* of the similarities the Gets that hit have returned
    nops,     \* number of operations invoked so far
    sym,      \* the encoder's symbolTable: its table and its RWMutex
    lin       \* history: the cache and the results of the same operations run
              \* one at a time in the order of their c.mu.Lock()

vars == <<c, mu, pc, arg, last, recency, done, nops, sym, lin>>

\* --- container/list, as the sequence of its elements, front first ---------

PushFront(l, e) == <<e>> \o l

ListRemove(l, e) == SelectSeq(l, LAMBDA x : x # e)

\* MoveToFront does nothing when e is not an element of l
MoveToFront(l, e) ==
    IF \E i \in 1..Len(l) : l[i] = e THEN <<e>> \o ListRemove(l, e) ELSE l

Back(l) == IF l = <<>> THEN NilElem ELSE l[Len(l)]

\* --- map[string]*list.Element -----------------------------------------------

MapDelete(m, k) == [x \in DOMAIN m \ {k} |-> m[x]]

MapPut(m, k, v) == [x \in DOMAIN m \cup {k} |-> IF x = k THEN v ELSE m[x]]

\* --- the heap of list elements ----------------------------------------------
\* c.elems[e] is the entry that element e points to; an element lives as long
\* as the list or the index refers to it.

Referenced(cs) ==
    {cs.lru[i] : i \in 1..Len(cs.lru)} \cup {cs.index[k] : k \in DOMAIN cs.index}

Collect(cs) == [cs EXCEPT !.elems = [e \in DOMAIN cs.elems \cap Referenced(cs) |-> cs.elems[e]]]

\* a fresh element: the least address not in use
NewElem(cs) ==
    CHOOSE e \in 1..(Cardinality(DOMAIN cs.elems) + 1) :
        /\ e \notin DOMAIN cs.elems
        /\ \A d \in 1..(e - 1) : d \in DOMAIN cs.elems

\* --- cache.New ---------------------------------------------------------------

NewCache(threshold, capacity) ==
    [lru |-> <<>>, elems |-> <<>>, index |-> <<>>,
     threshold |-> threshold, capacity |-> capacity,
     hits |-> 0, misses |-> 0, sets |-> 0, simSum |-> 0]

\* --- helpers that run with c.mu held -----------------------------------------

RECURSIVE scanLoop(_, _, _, _, _)
scanLoop(cs, vec, i, bestElem, bestSim) ==
    IF i > Len(cs.lru) THEN [elem |-> bestElem, sim |-> bestSim]
    ELSE LET s == Similarity(vec, cs.elems[cs.lru[i]].vec)
         IN  IF s >= cs.threshold /\ s > bestSim
             THEN scanLoop(cs, vec, i + 1, cs.lru[i], s)
             ELSE scanLoop(cs, vec, i + 1, bestElem, bestSim)

\* a scan that stops at the first element at or above the threshold
scanLocked_FirstMatch(cs, vec) ==
    LET above == {i \in 1..Len(cs.lru) :
                    Similarity(vec, cs.elems[cs.lru[i]].vec) >= cs.threshold}
    IN  IF above = {} THEN [elem |-> NilElem, sim |-> 0]
        ELSE LET i == CHOOSE x \in above : \A y \in above : x <= y
             IN  [elem |-> cs.lru[i], sim |-> Similarity(vec, cs.elems[cs.lru[i]].vec)]

RECURSIVE scanLoopGE(_, _, _, _, _)
scanLoopGE(cs, vec, i, bestElem, bestSim) ==
    IF i > Len(cs.lru) THEN [elem |-> bestElem, sim |-> bestSim]
    ELSE LET s == Similarity(vec, cs.elems[cs.lru[i]].vec)
         IN  IF s >= cs.threshold /\ s >= bestSim
             THEN scanLoopGE(cs, vec, i + 1, cs.lru[i], s)
             ELSE scanLoopGE(cs, vec, i + 1, bestElem, bestSim)

\* a scan that replaces the best candidate on s >= bestSim
scanLocked_LastTie(cs, vec) == scanLoopGE(cs, vec, 1, NilElem, 0)

\* a scan that takes an element only when it is above the threshold
scanLocked_StrictThreshold(cs, vec) ==
    LET sim(i) == Similarity(vec, cs.elems[cs.lru[i]].vec)
        above == {i \in 1..Len(cs.lru) : sim(i) > cs.threshold}
    IN  IF above = {} THEN [elem |-> NilElem, sim |-> 0]
        ELSE LET i == CHOOSE x \in above :
                         \A y \in above : sim(x) > sim(y) \/ (sim(x) = sim(y) /\ x <= y)
             IN  [elem |-> cs.lru[i], sim |-> sim(i)]

\* scanLocked: the best element at or above the threshold, or nil
scanLocked(cs, vec) == scanLoop(cs, vec, 1, NilElem, 0)

\* a removal that forgets delete(c.index, e.key)
removeLocked_KeepIndex(cs, elem) ==
    Collect([cs EXCEPT !.lru = ListRemove(@, elem)])

\* a removal that forgets c.lru.Remove(elem)
removeLocked_KeepList(cs, elem) ==
    Collect([cs EXCEPT !.index = MapDelete(@, cs.elems[elem].key)])

removeLocked(cs, elem) ==
    Collect([cs EXCEPT !.index = MapDelete(@, cs.elems[elem].key),
                       !.lru = ListRemove(@, elem)])

\* an eviction that takes c.lru.Front() instead of c.lru.Back()
evictLocked_Front(cs) ==
    IF cs.lru # <<>> THEN removeLocked(cs, cs.lru[1]) ELSE cs

evictLocked(cs) ==
    IF Back(cs.lru) # NilElem THEN removeLocked(cs, Back(cs.lru)) ELSE cs

\* --- the critical sections ----------------------------------------------------

\* a Set that evicts on c.lru.Len() > c.capacity
SetLocked_OffByOne(cs, key, value, vec) ==
    LET c1 == [cs EXCEPT !.sets = @ + 1]
    IN  IF key \in DOMAIN c1.index
        THEN LET elem == c1.index[key]
             IN  [c1 EXCEPT !.elems[elem].value = value,
                            !.elems[elem].vec = vec,
                            !.lru = MoveToFront(@, elem)]
        ELSE LET c2 == IF Len(c1.lru) > c1.capacity THEN evictLocked(c1) ELSE c1
                 e == NewElem(c2)
             IN  [c2 EXCEPT !.elems = MapPut(@, e, [key |-> key, vec |-> vec, value |-> value]),
                            !.lru = PushFront(@, e),
                            !.index = MapPut(@, key, e)]

\* a Set that makes room before it looks the key up
SetLocked_EvictFirst(cs, key, value, vec) ==
    LET c1 == [cs EXCEPT !.sets = @ + 1]
        c2 == IF Len(c1.lru) >= c1.capacity THEN evictLocked(c1) ELSE c1
    IN  IF key \in DOMAIN c2.index
        THEN LET elem == c2.index[key]
             IN  [c2 EXCEPT !.elems[elem].value = value,
                            !.elems[elem].vec = vec,
                            !.lru = MoveToFront(@, elem)]
        ELSE LET e == NewElem(c2)
             IN  [c2 EXCEPT !.elems = MapPut(@, e, [key |-> key, vec |-> vec, value |-> value]),
                            !.lru = PushFront(@, e),
                            !.index = MapPut(@, key, e)]

\* a Set whose update of an existing key forgets e.value = value
SetLocked_KeepValue(cs, key, value, vec) ==
    LET c1 == [cs EXCEPT !.sets = @ + 1]
    IN  IF key \in DOMAIN c1.index
        THEN LET elem == c1.index[key]
             IN  [c1 EXCEPT !.elems[elem].vec = vec,
                            !.lru = MoveToFront(@, elem)]
        ELSE LET c2 == IF Len(c1.lru) >= c1.capacity THEN evictLocked(c1) ELSE c1
                 e == NewElem(c2)
             IN  [c2 EXCEPT !.elems = MapPut(@, e, [key |-> key, vec |-> vec, value |-> value]),
                            !.lru = PushFront(@, e),
                            !.index = MapPut(@, key, e)]

\* a Set that counts insertions only: the update of a stored key returns
\* before c.sets++
SetLocked_CountInserts(cs, key, value, vec) ==
    IF key \in DOMAIN cs.index
    THEN LET elem == cs.index[key]
         IN  [cs EXCEPT !.elems[elem].value = value,
                        !.elems[elem].vec = vec,
                        !.lru = MoveToFront(@, elem)]
    ELSE LET c1 == [cs EXCEPT !.sets = @ + 1]
             c2 == IF Len(c1.lru) >= c1.capacity THEN evictLocked(c1) ELSE c1
             e == NewElem(c2)
         IN  [c2 EXCEPT !.elems = MapPut(@, e, [key |-> key, vec |-> vec, value |-> value]),
                        !.lru = PushFront(@, e),
                        !.index = MapPut(@, key, e)]

\* Set, from c.sets++ to the deferred Unlock
SetLocked(cs, key, value, vec) ==
    LET c1 == [cs EXCEPT !.sets = @ + 1]
    IN  IF key \in DOMAIN c1.index
        THEN LET elem == c1.index[key]
             IN  [c1 EXCEPT !.elems[elem].value = value,
                            !.elems[elem].vec = vec,
                            !.lru = MoveToFront(@, elem)]
        ELSE LET c2 == IF Len(c1.lru) >= c1.capacity THEN evictLocked(c1) ELSE c1
                 e == NewElem(c2)
             IN  [c2 EXCEPT !.elems = MapPut(@, e, [key |-> key, vec |-> vec, value |-> value]),
                            !.lru = PushFront(@, e),
                            !.index = MapPut(@, key, e)]

\* a Get that forgets c.lru.MoveToFront(bestElem)
GetLocked_NoPromote(cs, vec) ==
    LET best == scanLocked(cs, vec)
    IN  IF best.elem = NilElem
        THEN [c |-> [cs EXCEPT !.misses = @ + 1],
              value |-> Nil, ok |-> FALSE, sim |-> 0, elem |-> NilElem]
        ELSE [c |-> [cs EXCEPT !.hits = @ + 1,
                               !.simSum = @ + best.sim],
              value |-> cs.elems[best.elem].value, ok |-> TRUE, sim |-> best.sim,
              elem |-> best.elem]

\* a Get that forgets c.simSum += bestSim
GetLocked_NoSimSum(cs, vec) ==
    LET best == scanLocked(cs, vec)
    IN  IF best.elem = NilElem
        THEN [c |-> [cs EXCEPT !.misses = @ + 1],
              value |-> Nil, ok |-> FALSE, sim |-> 0, elem |-> NilElem]
        ELSE [c |-> [cs EXCEPT !.lru = MoveToFront(@, best.elem),
                               !.hits = @ + 1],
              value |-> cs.elems[best.elem].value, ok |-> TRUE, sim |-> best.sim,
              elem |-> best.elem]

\* a Get that on a miss moves the entry at the back to the front
GetLocked_MissPromotes(cs, vec) ==
    LET best == scanLocked(cs, vec)
    IN  IF best.elem = NilElem
        THEN [c |-> [cs EXCEPT !.lru = MoveToFront(@, Back(cs.lru)),
                               !.misses = @ + 1],
              value |-> Nil, ok |-> FALSE, sim |-> 0, elem |-> NilElem]
        ELSE [c |-> [cs EXCEPT !.lru = MoveToFront(@, best.elem),
                               !.hits = @ + 1,
                               !.simSum = @ + best.sim],
              value |-> cs.elems[best.elem].value, ok |-> TRUE, sim |-> best.sim,
              elem |-> best.elem]

\* Get, from scanLocked to the deferred Unlock: the new cache and the results
GetLocked(cs, vec) ==
    LET best == scanLocked(cs, vec)
    IN  IF best.elem = NilElem
        THEN [c |-> [cs EXCEPT !.misses = @ + 1],
              value |-> Nil, ok |-> FALSE, sim |-> 0, elem |-> NilElem]
        ELSE [c |-> [cs EXCEPT !.lru = MoveToFront(@, best.elem),
                               !.hits = @ + 1,
                               !.simSum = @ + best.sim],
              value |-> cs.elems[best.elem].value, ok |-> TRUE, sim |-> best.sim,
              elem |-> best.elem]

\* a Delete that looks the entry up by its encoded vector
DeleteLocked_ByVector(cs, key) ==
    LET same == {i \in 1..Len(cs.lru) : cs.elems[cs.lru[i]].vec = Encode(CacheCfg, key)}
    IN  IF same = {}
        THEN [c |-> cs, ok |-> FALSE]
        ELSE [c |-> removeLocked(cs, cs.lru[CHOOSE i \in same : \A j \in same : i <= j]),
              ok |-> TRUE]

\* Delete
DeleteLocked(cs, key) ==
    IF key \notin DOMAIN cs.index
    THEN [c |-> cs, ok |-> FALSE]
    ELSE [c |-> removeLocked(cs, cs.index[key]), ok |-> TRUE]

\* Stats: rates as <<numerator, denominator>>, <<0, 1>> for the literal 0.0;
\* AvgSimOnHit has simSum in units of 1/Dims as its numerator
StatsLocked(cs) ==
    LET total == cs.hits + cs.misses
    IN  [Entries |-> Len(cs.lru), Hits |-> cs.hits, Misses |-> cs.misses, Sets |-> cs.sets,
         HitRate |-> IF total > 0 THEN <<cs.hits, total>> ELSE <<0, 1>>,
         AvgSimOnHit |-> IF cs.hits > 0 THEN <<cs.simSum, cs.hits>> ELSE <<0, 1>>]

\* ------------------------------------------------------------------------
\* The goroutines
\* A call is three steps: the part before c.mu.Lock() (for Set and Get the
\* encoding of the key), the acquisition of c.mu, and the critical section
\* up to and including the Unlock and the return.
\* ------------------------------------------------------------------------

NoArg == [key |-> NoKey, value |-> Nil, vec |-> New(Dims)]

NoStats ==
    [Entries |-> 0, Hits |-> 0, Misses |-> 0, Sets |-> 0,
     HitRate |-> <<0, 1>>, AvgSimOnHit |-> <<0, 1>>]

NoLast ==
    [op |-> "none", key |-> NoKey, value |-> Nil, ok |-> FALSE, sim |-> 0,
     ret |-> Nil, hitKey |-> NoKey, pos |-> 0, removed |-> {}, n |-> 0,
     stats |-> NoStats]

\* history: where key k stands in the list (1 = front), 0 when it is not stored
PosOf(cs, k) ==
    IF \E i \in 1..Len(cs.lru) : cs.elems[cs.lru[i]].key = k
    THEN CHOOSE i \in 1..Len(cs.lru) : cs.elems[cs.lru[i]].key = k
    ELSE 0

\* the keys of the entries in the list, front first
ListKeys(cs) == [i \in 1..Len(cs.lru) |-> cs.elems[cs.lru[i]].key]

KeySet(cs) == {cs.elems[cs.lru[i]].key : i \in 1..Len(cs.lru)}

\* history: key k was just stored, updated or hit
Touch(r, k) == <<k>> \o SelectSeq(r, LAMBDA x : x # k)

\* history: only the keys still stored
Stored(r, cs) == SelectSeq(r, LAMBDA x : x \in DOMAIN cs.index)

\* history: no call has returned yet
NoneDone == [gets |-> 0, sets |-> 0, simTotal |-> 0]

\* the symbol table and the order of the locks are not followed
NoSym == [table |-> <<>>, readers |-> {}, writer |-> 0]
NoLin == [c |-> <<>>, exp |-> <<>>]

Init ==
    /\ c \in {NewCache(th, cap) : th \in Thresholds, cap \in 1..MaxCap}
    /\ mu = 0
    /\ pc = [t \in Threads |-> "idle"]
    /\ arg = [t \in Threads |-> NoArg]
    /\ last = NoLast
    /\ recency = <<>>
    /\ done = NoneDone
    /\ nops = 0
    /\ sym = NoSym
    /\ lin = NoLin

\* Set: vec := c.enc.Encode(key), before the lock
CallSet(t, k, v) ==
    /\ pc[t] = "idle"
    /\ nops < MaxOps
    /\ arg' = [arg EXCEPT ![t] = [key |-> k, value |-> v, vec |-> EncOf[k]]]
    /\ pc' = [pc EXCEPT ![t] = "set_lock"]
    /\ nops' = nops + 1
    /\ UNCHANGED <<c, mu, last, recency, done, sym, lin>>

\* Get: vec := c.enc.Encode(key), before the lock
CallGet(t, k) ==
    /\ pc[t] = "idle"
    /\ nops < MaxOps
    /\ arg' = [arg EXCEPT ![t] = [key |-> k, value |-> Nil, vec |-> EncOf[k]]]
    /\ pc' = [pc EXCEPT ![t] = "get_lock"]
    /\ nops' = nops + 1
    /\ UNCHANGED <<c, mu, last, recency, done, sym, lin>>

\* Delete: nothing is encoded
CallDelete(t, k) ==
    /\ pc[t] = "idle"
    /\ nops < MaxOps
    /\ arg' = [arg EXCEPT ![t] = [key |-> k, value |-> Nil, vec |-> New(Dims)]]
    /\ pc' = [pc EXCEPT ![t] = "delete_lock"]
    /\ nops' = nops + 1
    /\ UNCHANGED <<c, mu, last, recency, done, sym, lin>>

CallLen(t) ==
    /\ pc[t] = "idle"
    /\ nops < MaxOps
    /\ pc' = [pc EXCEPT ![t] = "len_lock"]
    /\ nops' = nops + 1
    /\ UNCHANGED <<c, mu, arg, last, recency, done, sym, lin>>

CallStats(t) ==
    /\ pc[t] = "idle"
    /\ nops < MaxOps
    /\ pc' = [pc EXCEPT ![t] = "stats_lock"]
    /\ nops' = nops + 1
    /\ UNCHANGED <<c, mu, arg, last, recency, done, sym, lin>>

\* c.mu.Lock()
Lock(t) ==
    /\ pc[t] \in {"set_lock", "get_lock", "delete_lock", "len_lock", "stats_lock"}
    /\ mu = 0
    /\ mu' = t
    /\ pc' = [pc EXCEPT ![t] = CASE pc[t] = "set_lock" -> "set_cs"
                                 [] pc[t] = "get_lock" -> "get_cs"
                                 [] pc[t] = "delete_lock" -> "delete_cs"
                                 [] pc[t] = "len_lock" -> "len_cs"
                                 [] pc[t] = "stats_lock" -> "stats_cs"]
    /\ UNCHANGED <<c, arg, last, recency, done, nops, sym, lin>>

\* the critical section of Set, its deferred Unlock and its return
SetBody(t) ==
    /\ pc[t] = "set_cs"
    /\ mu = t
    /\ c' = SetLocked(c, arg[t].key, arg[t].value, arg[t].vec)
    /\ mu' = 0
    /\ pc' = [pc EXCEPT ![t] = "idle"]
    /\ arg' = [arg EXCEPT ![t] = NoArg]
    /\ last' = [NoLast EXCEPT !.op = "set", !.key = arg[t].key, !.value = arg[t].value,
                              !.pos = PosOf(c, arg[t].key),
                              !.removed = KeySet(c) \ KeySet(c')]
    /\ recency' = Stored(Touch(recency, arg[t].key), c')
    /\ done' = [done EXCEPT !.sets = @ + 1]
    /\ UNCHANGED <<nops, sym, lin>>

\* the critical section of Get, its deferred Unlock and its return
GetBody(t) ==
    /\ pc[t] = "get_cs"
    /\ mu = t
    /\ LET r == GetLocked(c, arg[t].vec)
           hk == IF r.ok THEN c.elems[r.elem].key ELSE NoKey
       IN  /\ c' = r.c
           /\ last' = [NoLast EXCEPT !.op = "get", !.key = arg[t].key, !.ok = r.ok,
                                     !.sim = r.sim, !.ret = r.value, !.hitKey = hk,
                                     !.pos = PosOf(c, hk),
                                     !.removed = KeySet(c) \ KeySet(c')]
           /\ recency' = IF r.ok THEN Stored(Touch(recency, hk), c') ELSE Stored(recency, c')
           /\ done' = [done EXCEPT !.gets = @ + 1, !.simTotal = @ + r.sim]
    /\ mu' = 0
    /\ pc' = [pc EXCEPT ![t] = "idle"]
    /\ arg' = [arg EXCEPT ![t] = NoArg]
    /\ UNCHANGED <<nops, sym, lin>>

\* the critical section of Delete, its deferred Unlock and its return
DeleteBody(t) ==
    /\ pc[t] = "delete_cs"
    /\ mu = t
    /\ LET r == DeleteLocked(c, arg[t].key)
       IN  /\ c' = r.c
           /\ last' = [NoLast EXCEPT !.op = "delete", !.key = arg[t].key, !.ok = r.ok,
                                     !.removed = KeySet(c) \ KeySet(c')]
           /\ recency' = Stored(recency, c')
    /\ mu' = 0
    /\ pc' = [pc EXCEPT ![t] = "idle"]
    /\ arg' = [arg EXCEPT ![t] = NoArg]
    /\ UNCHANGED <<done, nops, sym, lin>>

\* Len: n := c.lru.Len() between Lock and Unlock
LenBody(t) ==
    /\ pc[t] = "len_cs"
    /\ mu = t
    /\ last' = [NoLast EXCEPT !.op = "len", !.n = Len(c.lru)]
    /\ mu' = 0
    /\ pc' = [pc EXCEPT ![t] = "idle"]
    /\ UNCHANGED <<c, arg, recency, done, nops, sym, lin>>

\* Stats: the snapshot, then the deferred Unlock
StatsBody(t) ==
    /\ pc[t] = "stats_cs"
    /\ mu = t
    /\ last' = [NoLast EXCEPT !.op = "stats", !.stats = StatsLocked(c)]
    /\ mu' = 0
    /\ pc' = [pc EXCEPT ![t] = "idle"]
    /\ UNCHANGED <<c, arg, recency, done, nops, sym, lin>>

Next ==
    \E t \in Threads :
        \/ \E k \in Keys, v \in Values : CallSet(t, k, v)
        \/ \E k \in Keys : CallGet(t, k)
        \/ \E k \in Keys : CallDelete(t, k)
        \/ CallLen(t)
        \/ CallStats(t)
        \/ Lock(t)
        \/ SetBody(t)
        \/ GetBody(t)
        \/ DeleteBody(t)
        \/ LenBody(t)
        \/ StatsBody(t)

Spec == Init /\ [][Next]_vars

\* ------------------------------------------------------------------------
\* Construction and single-goroutine use
\* The constructors called with every kind of option value, then Set, Get and
\* Delete called one after the other on the cache that was built.  The
\* cache record carries its enc field here; an encoder is [kind |-> "nil"]
\* (a nil hdc.Encoder) or [kind |-> "ngram", cfg |-> Config].  A threshold
\* option is in units of 1/Dims as before: t <= 0 is n <= 0, t > 1 is
\* n > Dims.  A call that panics returns [ok |-> FALSE, panic |-> message].
\* ------------------------------------------------------------------------

\* number of Set, Get and Delete calls made on a constructed cache
UseOps == 2

NilEncoder == [kind |-> "nil"]

NGram(cfg) == [kind |-> "ngram", cfg |-> cfg]

\* an encoder with a small window that strips punctuation and chunks every
\* sentence of more than two code points
SmallCfg ==
    [Dims |-> Dims, NGramSize |-> 2, StripPunctuation |-> TRUE,
     LongTextThresh |-> 2, ChunkSize |-> 2, Seed |-> 1]

\* hdc.NewNGramEncoder: the Config checks
NewNGramEncoder(cfg) ==
    IF cfg.Dims <= 0
    THEN [ok |-> FALSE, panic |-> "hdc: Config.Dims must be positive"]
    ELSE IF cfg.NGramSize <= 0
    THEN [ok |-> FALSE, panic |-> "hdc: Config.NGramSize must be positive"]
    ELSE IF cfg.ChunkSize < 2
    THEN [ok |-> FALSE, panic |-> "hdc: Config.ChunkSize must be >= 2"]
    ELSE IF cfg.LongTextThresh <= 0
    THEN [ok |-> FALSE, panic |-> "hdc: Config.LongTextThresh must be positive"]
    ELSE [ok |-> TRUE, enc |-> NGram(cfg)]

\* a cache.New that forgets the upper bound of the threshold
cacheNew_NoUpperBound(enc, opts) ==
    IF opts.Capacity <= 0
    THEN [ok |-> FALSE, panic |-> "cache: Options.Capacity must be positive"]
    ELSE IF opts.Threshold <= 0
    THEN [ok |-> FALSE, panic |-> "cache: Options.Threshold must be in (0, 1]"]
    ELSE [ok |-> TRUE,
          cache |-> [enc |-> enc] @@ NewCache(opts.Threshold, opts.Capacity)]

\* cache.New
cacheNew(enc, opts) ==
    IF opts.Capacity <= 0
    THEN [ok |-> FALSE, panic |-> "cache: Options.Capacity must be positive"]
    ELSE IF opts.Threshold <= 0 \/ opts.Threshold > Dims
    THEN [ok |-> FALSE, panic |-> "cache: Options.Threshold must be in (0, 1]"]
    ELSE [ok |-> TRUE,
          cache |-> [enc |-> enc] @@ NewCache(opts.Threshold, opts.Capacity)]

\* xordb.New, o being the dbOptions after the options were applied
xordbNew(o) ==
    LET e == NewNGramEncoder([Dims |-> o.dims, NGramSize |-> o.ngram,
                              StripPunctuation |-> o.stripPunctuation,
                              LongTextThresh |-> DefaultLongTextThresh,
                              ChunkSize |-> DefaultChunkSize, Seed |-> o.seed])
    IN  IF ~e.ok THEN e
        ELSE cacheNew(e.enc, [Threshold |-> o.threshold, Capacity |-> o.capacity])

\* xordb.NewWithEncoder: a nil encoder fails, every other one is handed to
\* cache.New with the threshold and capacity options
NewWithEncoder(enc, o) ==
    IF enc.kind = "nil"
    THEN [ok |-> FALSE, panic |-> "xordb: encoder must not be nil"]
    ELSE cacheNew(enc, [Threshold |-> o.threshold, Capacity |-> o.capacity])

\* the encoders handed to cache.New and NewWithEncoder
Encoders == {NilEncoder, NGram(CacheCfg), NGram(SmallCfg)}

\* Options.Threshold, from below 0 to above 1
ThresholdOpts == (0 - 1)..(Dims + 1)

\* Options.Capacity, from below 1
CapacityOpts == (0 - 1)..MaxCap

\* the dbOptions tried on xordb.New
DbOptions ==
    [dims : {0, Dims}, ngram : {0, DefaultNGram}, seed : {0},
     stripPunctuation : BOOLEAN, threshold : ThresholdOpts, capacity : CapacityOpts]

\* "", " ", ".", "a", "abc", "a.b"
Texts == {<<>>, <<32>>, <<46>>, <<97>>, <<97, 98, 99>>, <<97, 46, 98>>}

\* c.enc.Encode(text) for the encoders and texts above
EncTable ==
    [cfg \in {CacheCfg, [CacheCfg EXCEPT !.StripPunctuation = TRUE], SmallCfg}, x \in Texts |->
        Encode(cfg, x)]

\* no cache: before construction and after a panic
NoCache == [built |-> FALSE]

NoCall == [fn |-> "none"]

CtorInit ==
    /\ c = NoCache
    /\ mu = 0
    /\ pc = "start"
    /\ arg = NoCall
    /\ last = NoLast
    /\ recency = <<>>
    /\ done = NoneDone
    /\ nops = 0
    /\ sym = NoSym
    /\ lin = NoLin

\* a constructor called as `call` has returned or panicked with r
Constructed(r, call) ==
    /\ pc = "start"
    /\ pc' = IF r.ok THEN "ready" ELSE "panic"
    /\ c' = IF r.ok THEN r.cache ELSE NoCache
    /\ arg' = call
    /\ last' = [NoLast EXCEPT !.op = "new", !.ok = r.ok]
    /\ UNCHANGED <<mu, recency, done, nops, sym, lin>>

CallCacheNew(enc, opts) ==
    Constructed(cacheNew(enc, opts),
                [fn |-> "cache.New", enc |-> enc,
                 threshold |-> opts.Threshold, capacity |-> opts.Capacity])

CallXordbNew(o) ==
    Constructed(xordbNew(o),
                [fn |-> "xordb.New", dims |-> o.dims, ngram |-> o.ngram,
                 threshold |-> o.threshold, capacity |-> o.capacity])

CallNewWithEncoder(enc, o) ==
    Constructed(NewWithEncoder(enc, o),
                [fn |-> "xordb.NewWithEncoder", enc |-> enc,
                 threshold |-> o.threshold, capacity |-> o.capacity])

\* Set and Get on a cache whose encoder is nil: c.enc.Encode(key) panics
\* with a nil dereference before the mutex is taken
NilDeref(op, text) ==
    /\ pc = "ready"
    /\ nops < UseOps
    /\ c.enc.kind = "nil"
    /\ pc' = "panic"
    /\ last' = [NoLast EXCEPT !.op = op, !.key = text]
    /\ nops' = nops + 1
    /\ UNCHANGED <<c, mu, arg, recency, done, sym, lin>>

\* Set, the whole call
UseSet(text, v) ==
    /\ pc = "ready"
    /\ nops < UseOps
    /\ c.enc.kind = "ngram"
    /\ c' = SetLocked(c, text, v, EncTable[c.enc.cfg, text])
    /\ last' = [NoLast EXCEPT !.op = "set", !.key = text, !.value = v]
    /\ nops' = nops + 1
    /\ UNCHANGED <<mu, pc, arg, recency, done, sym, lin>>

\* Get, the whole call
UseGet(text) ==
    /\ pc = "ready"
    /\ nops < UseOps
    /\ c.enc.kind = "ngram"
    /\ LET r == GetLocked(c, EncTable[c.enc.cfg, text])
       IN  /\ c' = r.c
           /\ last' = [NoLast EXCEPT !.op = "get", !.key = text, !.ok = r.ok,
                                     !.sim = r.sim, !.ret = r.value,
                                     !.hitKey = IF r.ok THEN c.elems[r.elem].key ELSE NoKey]
    /\ nops' = nops + 1
    /\ UNCHANGED <<mu, pc, arg, recency, done, sym, lin>>

\* Delete, the whole call; the encoder is not used
UseDelete(text) ==
    /\ pc = "ready"
    /\ nops < UseOps
    /\ LET r == DeleteLocked(c, text)
       IN  /\ c' = r.c
           /\ last' = [NoLast EXCEPT !.op = "delete", !.key = text, !.ok = r.ok]
    /\ nops' = nops + 1
    /\ UNCHANGED <<mu, pc, arg, recency, done, sym, lin>>

CtorNext ==
    \/ \E enc \in Encoders, th \in ThresholdOpts, cap \in CapacityOpts :
          CallCacheNew(enc, [Threshold |-> th, Capacity |-> cap])
    \/ \E o \in DbOptions : CallXordbNew(o)
    \/ \E enc \in Encoders, o \in DbOptions : CallNewWithEncoder(enc, o)
    \/ \E x \in Texts : NilDeref("set", x) \/ NilDeref("get", x)
    \/ \E x \in Texts, v \in Values : UseSet(x, v)
    \/ \E x \in Texts : UseGet(x)
    \/ \E x \in Texts : UseDelete(x)

CtorSpec == CtorInit /\ [][CtorNext]_vars

\* ------------------------------------------------------------------------
\* The goroutines, step by step
\* The same calls with every lock operation and every part of a critical
\* section as a step of its own: Encode's calls of symbolTable.get (RLock,
\* lookup and RUnlock, Lock, store and Unlock), c.mu.Lock(), and the critical
\* sections of Set (c.sets++, lookup and eviction; insertion) and of Get
\* (scan; promotion and counters).  arg[t] holds the locals of goroutine t:
\* op, key, value, vec, todo (the runes Encode still has to look up) and
\* best (what scanLocked returned), and as history busy: another goroutine
\* held c.mu when Encode returned.  A step inside a critical section is
\* guarded by the goroutine's position only: the mutex is what keeps the
\* others out.
\* ------------------------------------------------------------------------

\* number of cache operations invoked in one step-by-step behaviour
StepOps == 2

\* "a", "ab"
StepKeys == {<<97>>, <<97, 98>>}

StepEnc == [k \in StepKeys |-> Encode(CacheCfg, k)]

RECURSIVE Flatten(_)
Flatten(ss) == IF ss = <<>> THEN <<>> ELSE Head(ss) \o Flatten(Tail(ss))

\* the runes encodeRunes passes to e.sym.get, in order
runeRefs(cfg, runes) ==
    IF Len(runes) < cfg.NGramSize THEN runes
    ELSE Flatten([i \in 1..(Len(runes) - cfg.NGramSize + 1) |->
                     SubSeq(runes, i, i + cfg.NGramSize - 1)])

RECURSIVE chunkRefLoop(_, _, _, _, _)
chunkRefLoop(cfg, runes, start, refs, nvecs) ==
    IF start >= Len(runes) THEN refs
    ELSE LET end == Min(start + cfg.ChunkSize, Len(runes))
             chunk == SubSeq(runes, start + 1, end)
             take == Len(chunk) >= cfg.NGramSize \/ nvecs = 0
             refs2 == IF take THEN refs \o runeRefs(cfg, chunk) ELSE refs
             nvecs2 == IF take THEN nvecs + 1 ELSE nvecs
         IN  IF end = Len(runes) THEN refs2
             ELSE chunkRefLoop(cfg, runes, start + cfg.ChunkSize \div 2, refs2, nvecs2)

RECURSIVE sentenceRefLoop(_, _, _, _)
sentenceRefLoop(cfg, sentences, i, refs) ==
    IF i > Len(sentences) THEN refs
    ELSE LET r == normalizeSegment(sentences[i], cfg.StripPunctuation)
         IN  sentenceRefLoop(cfg, sentences, i + 1,
                 refs \o (IF Len(r) > cfg.LongTextThresh
                          THEN chunkRefLoop(cfg, r, 0, <<>>, 0)
                          ELSE runeRefs(cfg, r)))

\* the runes one Encode(text) passes to symbolTable.get, in order
EncodeRefs(cfg, text) ==
    IF text = <<>> THEN <<>>
    ELSE sentenceRefLoop(cfg, splitSentences(ToLower(text)), 1, <<>>)

\* what a call returns: (value, ok, sim) of Get, ok of Delete, n of Len,
\* the snapshot of Stats
NoRes == [value |-> Nil, ok |-> FALSE, sim |-> 0, n |-> 0, stats |-> NoStats]

NoLocals ==
    [op |-> "none", key |-> NoKey, value |-> Nil, vec |-> New(Dims), todo |-> <<>>,
     best |-> [elem |-> NilElem, sim |-> 0], busy |-> FALSE]

\* Set up to the insertion: c.sets++, the index lookup with the update in
\* place, or else the eviction when the cache is full
setLookup(cs, key, value, vec) ==
    LET c1 == [cs EXCEPT !.sets = @ + 1]
    IN  IF key \in DOMAIN c1.index
        THEN LET elem == c1.index[key]
             IN  [found |-> TRUE,
                  c |-> [c1 EXCEPT !.elems[elem].value = value,
                                   !.elems[elem].vec = vec,
                                   !.lru = MoveToFront(@, elem)]]
        ELSE [found |-> FALSE,
              c |-> IF Len(c1.lru) >= c1.capacity THEN evictLocked(c1) ELSE c1]

\* Set, the insertion: c.index[key] = c.lru.PushFront(e)
setInsert(cs, key, value, vec) ==
    LET e == NewElem(cs)
    IN  [cs EXCEPT !.elems = MapPut(@, e, [key |-> key, vec |-> vec, value |-> value]),
                   !.lru = PushFront(@, e),
                   !.index = MapPut(@, key, e)]

\* Get after the scan: the miss, or the promotion, the counters and the result
getApply(cs, best) ==
    IF best.elem = NilElem
    THEN [c |-> [cs EXCEPT !.misses = @ + 1], value |-> Nil, ok |-> FALSE, sim |-> 0]
    ELSE [c |-> [cs EXCEPT !.lru = MoveToFront(@, best.elem),
                           !.hits = @ + 1,
                           !.simSum = @ + best.sim],
          value |-> cs.elems[best.elem].value, ok |-> TRUE, sim |-> best.sim]

\* history: the operation of goroutine t with locals a, run as a whole on
\* the cache l.c
LinApply(l, t, a) ==
    CASE a.op = "set" ->
            [c |-> SetLocked(l.c, a.key, a.value, StepEnc[a.key]),
             exp |-> [l.exp EXCEPT ![t] = NoRes]]
      [] a.op = "get" ->
            LET r == GetLocked(l.c, StepEnc[a.key])
            IN  [c |-> r.c,
                 exp |-> [l.exp EXCEPT ![t] =
                             [NoRes EXCEPT !.value = r.value, !.ok = r.ok, !.sim = r.sim]]]
      [] a.op = "delete" ->
            LET r == DeleteLocked(l.c, a.key)
            IN  [c |-> r.c, exp |-> [l.exp EXCEPT ![t] = [NoRes EXCEPT !.ok = r.ok]]]
      [] a.op = "len" ->
            [c |-> l.c, exp |-> [l.exp EXCEPT ![t] = [NoRes EXCEPT !.n = Len(l.c.lru)]]]
      [] a.op = "stats" ->
            [c |-> l.c, exp |-> [l.exp EXCEPT ![t] = [NoRes EXCEPT !.stats = StatsLocked(l.c)]]]

StepInit ==
    /\ c \in {NewCache(th, cap) : th \in Thresholds, cap \in 1..MaxCap}
    /\ mu = 0
    /\ pc = [t \in Threads |-> "idle"]
    /\ arg = [t \in Threads |-> NoLocals]
    /\ last = [op |-> "none", t |-> 0, res |-> NoRes, exp |-> NoRes, busy |-> FALSE]
    /\ recency = <<>>
    /\ done = NoneDone
    /\ nops = 0
    /\ sym = [table |-> <<>>, readers |-> {}, writer |-> 0]
    /\ lin = [c |-> c, exp |-> [t \in Threads |-> NoRes]]

\* Encode starts on the locals a of goroutine t: with no rune to look up it
\* returns at once
StartEncode(t, a) ==
    LET refs == EncodeRefs(CacheCfg, a.key)
    IN  /\ arg' = [arg EXCEPT ![t] = IF refs = <<>>
                                     THEN [a EXCEPT !.vec = StepEnc[a.key], !.busy = (mu # 0)]
                                     ELSE [a EXCEPT !.todo = refs]]
        /\ pc' = [pc EXCEPT ![t] = IF refs = <<>> THEN "lock" ELSE "sym_rlock"]

\* symbolTable.get has returned: the next rune, or Encode returns the vector
NextRune(t) ==
    LET a == arg[t]
        rest == Tail(a.todo)
    IN  /\ arg' = [arg EXCEPT ![t] = IF rest = <<>>
                                     THEN [a EXCEPT !.todo = <<>>, !.vec = StepEnc[a.key],
                                                    !.busy = (mu # 0)]
                                     ELSE [a EXCEPT !.todo = rest]]
        /\ pc' = [pc EXCEPT ![t] = IF rest = <<>> THEN "lock" ELSE "sym_rlock"]

InvokeSet(t, k, v) ==
    /\ pc[t] = "idle"
    /\ nops < StepOps
    /\ StartEncode(t, [NoLocals EXCEPT !.op = "set", !.key = k, !.value = v])
    /\ nops' = nops + 1
    /\ UNCHANGED <<c, mu, last, recency, done, sym, lin>>

InvokeGet(t, k) ==
    /\ pc[t] = "idle"
    /\ nops < StepOps
    /\ StartEncode(t, [NoLocals EXCEPT !.op = "get", !.key = k])
    /\ nops' = nops + 1
    /\ UNCHANGED <<c, mu, last, recency, done, sym, lin>>

InvokeDelete(t, k) ==
    /\ pc[t] = "idle"
    /\ nops < StepOps
    /\ arg' = [arg EXCEPT ![t] = [NoLocals EXCEPT !.op = "delete", !.key = k]]
    /\ pc' = [pc EXCEPT ![t] = "lock"]
    /\ nops' = nops + 1
    /\ UNCHANGED <<c, mu, last, recency, done, sym, lin>>

InvokeLen(t) ==
    /\ pc[t] = "idle"
    /\ nops < StepOps
    /\ arg' = [arg EXCEPT ![t] = [NoLocals EXCEPT !.op = "len"]]
    /\ pc' = [pc EXCEPT ![t] = "lock"]
    /\ nops' = nops + 1
    /\ UNCHANGED <<c, mu, last, recency, done, sym, lin>>

InvokeStats(t) ==
    /\ pc[t] = "idle"
    /\ nops < StepOps
    /\ arg' = [arg EXCEPT ![t] = [NoLocals EXCEPT !.op = "stats"]]
    /\ pc' = [pc EXCEPT ![t] = "lock"]
    /\ nops' = nops + 1
    /\ UNCHANGED <<c, mu, last, recency, done, sym, lin>>

\* t.mu.RLock(): readers do not exclude readers
SymRLock(t) ==
    /\ pc[t] = "sym_rlock"
    /\ sym.writer = 0
    /\ sym' = [sym EXCEPT !.readers = @ \cup {t}]
    /\ pc' = [pc EXCEPT ![t] = "sym_lookup"]
    /\ UNCHANGED <<c, mu, arg, last, recency, done, nops, lin>>

\* a get that gives the read lock back only when it found the rune
afterLookup_KeepOnMiss(s, t, found) ==
    IF found THEN [s EXCEPT !.readers = @ \ {t}] ELSE s

\* v, ok := t.table[r]; t.mu.RUnlock(), whether r was found or not
afterLookup(s, t, found) == [s EXCEPT !.readers = @ \ {t}]

\* the lookup under the read lock and the RUnlock
SymLookup(t) ==
    /\ pc[t] = "sym_lookup"
    /\ LET found == Head(arg[t].todo) \in DOMAIN sym.table
       IN  /\ sym' = afterLookup(sym, t, found)
           /\ IF found THEN NextRune(t)
              ELSE /\ pc' = [pc EXCEPT ![t] = "sym_lock"]
                   /\ UNCHANGED arg
    /\ UNCHANGED <<c, mu, last, recency, done, nops, lin>>

\* t.mu.Lock(): waits for the readers and the writer to leave
SymLock(t) ==
    /\ pc[t] = "sym_lock"
    /\ sym.writer = 0
    /\ sym.readers = {}
    /\ sym' = [sym EXCEPT !.writer = t]
    /\ pc' = [pc EXCEPT ![t] = "sym_store"]
    /\ UNCHANGED <<c, mu, arg, last, recency, done, nops, lin>>

\* the second lookup, t.table[r] = Random(...), and the deferred Unlock
SymStore(t) ==
    /\ pc[t] = "sym_store"
    /\ LET r == Head(arg[t].todo)
       IN  sym' = [sym EXCEPT !.table = IF r \in DOMAIN @ THEN @
                                        ELSE MapPut(@, r, symGet(CacheCfg, r)),
                              !.writer = 0]
    /\ NextRune(t)
    /\ UNCHANGED <<c, mu, last, recency, done, nops, lin>>

\* a Lock that does not wait for the holder
MuLock_NoWait(t) ==
    /\ pc[t] = "lock"
    /\ mu' = t
    /\ pc' = [pc EXCEPT ![t] = CASE arg[t].op = "set" -> "set_lookup"
                                 [] arg[t].op = "get" -> "get_scan"
                                 [] arg[t].op = "delete" -> "delete_cs"
                                 [] arg[t].op = "len" -> "len_cs"
                                 [] arg[t].op = "stats" -> "stats_cs"]
    /\ lin' = LinApply(lin, t, arg[t])
    /\ UNCHANGED <<c, arg, last, recency, done, nops, sym>>

\* c.mu.Lock()
MuLock(t) ==
    /\ pc[t] = "lock"
    /\ mu = 0
    /\ mu' = t
    /\ pc' = [pc EXCEPT ![t] = CASE arg[t].op = "set" -> "set_lookup"
                                 [] arg[t].op = "get" -> "get_scan"
                                 [] arg[t].op = "delete" -> "delete_cs"
                                 [] arg[t].op = "len" -> "len_cs"
                                 [] arg[t].op = "stats" -> "stats_cs"]
    /\ lin' = LinApply(lin, t, arg[t])
    /\ UNCHANGED <<c, arg, last, recency, done, nops, sym>>

\* the Unlock and the return of goroutine t with result res
Return(t, res) ==
    /\ mu' = 0
    /\ pc' = [pc EXCEPT ![t] = "idle"]
    /\ arg' = [arg EXCEPT ![t] = NoLocals]
    /\ last' = [op |-> arg[t].op, t |-> t, res |-> res, exp |-> lin.exp[t],
                busy |-> arg[t].busy]

\* a Set that gives the mutex back before it inserts
SetLookup_UnlockEarly(t) ==
    /\ pc[t] = "set_lookup"
    /\ LET r == setLookup(c, arg[t].key, arg[t].value, arg[t].vec)
       IN  /\ c' = r.c
           /\ IF r.found THEN Return(t, NoRes)
              ELSE /\ pc' = [pc EXCEPT ![t] = "set_insert"]
                   /\ mu' = 0
                   /\ UNCHANGED <<arg, last>>
    /\ UNCHANGED <<recency, done, nops, sym, lin>>

\* Set: c.sets++, the lookup, the update in place or the eviction
SetLookup(t) ==
    /\ pc[t] = "set_lookup"
    /\ LET r == setLookup(c, arg[t].key, arg[t].value, arg[t].vec)
       IN  /\ c' = r.c
           /\ IF r.found THEN Return(t, NoRes)
              ELSE /\ pc' = [pc EXCEPT ![t] = "set_insert"]
                   /\ UNCHANGED <<mu, arg, last>>
    /\ UNCHANGED <<recency, done, nops, sym, lin>>

\* Set: the insertion and the deferred Unlock
SetInsert(t) ==
    /\ pc[t] = "set_insert"
    /\ c' = setInsert(c, arg[t].key, arg[t].value, arg[t].vec)
    /\ Return(t, NoRes)
    /\ UNCHANGED <<recency, done, nops, sym, lin>>

\* Get: bestElem, bestSim := c.scanLocked(vec)
GetScan(t) ==
    /\ pc[t] = "get_scan"
    /\ arg' = [arg EXCEPT ![t].best = scanLocked(c, arg[t].vec)]
    /\ pc' = [pc EXCEPT ![t] = "get_apply"]
    /\ UNCHANGED <<c, mu, last, recency, done, nops, sym, lin>>

\* Get: the miss or the hit, and the deferred Unlock
GetApply(t) ==
    /\ pc[t] = "get_apply"
    /\ LET r == getApply(c, arg[t].best)
       IN  /\ c' = r.c
           /\ Return(t, [NoRes EXCEPT !.value = r.value, !.ok = r.ok, !.sim = r.sim])
    /\ UNCHANGED <<recency, done, nops, sym, lin>>

DeleteCS(t) ==
    /\ pc[t] = "delete_cs"
    /\ LET r == DeleteLocked(c, arg[t].key)
       IN  /\ c' = r.c
           /\ Return(t, [NoRes EXCEPT !.ok = r.ok])
    /\ UNCHANGED <<recency, done, nops, sym, lin>>

LenCS(t) ==
    /\ pc[t] = "len_cs"
    /\ Return(t, [NoRes EXCEPT !.n = Len(c.lru)])
    /\ UNCHANGED <<c, recency, done, nops, sym, lin>>

StatsCS(t) ==
    /\ pc[t] = "stats_cs"
    /\ Return(t, [NoRes EXCEPT !.stats = StatsLocked(c)])
    /\ UNCHANGED <<c, recency, done, nops, sym, lin>>

\* a step of goroutine t inside a call
Step(t) ==
    \/ SymRLock(t)
    \/ SymLookup(t)
    \/ SymLock(t)
    \/ SymStore(t)
    \/ MuLock(t)
    \/ SetLookup(t)
    \/ SetInsert(t)
    \/ GetScan(t)
    \/ GetApply(t)
    \/ DeleteCS(t)
    \/ LenCS(t)
    \/ StatsCS(t)

StepNext ==
    \E t \in Threads :
        \/ \E k \in StepKeys, v \in Values : InvokeSet(t, k, v)
        \/ \E k \in StepKeys : InvokeGet(t, k)
        \/ \E k \in StepKeys : InvokeDelete(t, k)
        \/ InvokeLen(t)
        \/ InvokeStats(t)
        \/ SymRLock(t)
        \/ SymLookup(t)
        \/ SymLock(t)
        \/ SymStore(t)
        \/ MuLock(t)
        \/ SetLookup(t)
        \/ SetInsert(t)
        \/ GetScan(t)
        \/ GetApply(t)
        \/ DeleteCS(t)
        \/ LenCS(t)
        \/ StatsCS(t)

StepSpec == StepInit /\ [][StepNext]_vars

\* neither the threshold nor the capacity decides whether a step is possible:
\* the fair behaviours start from one cache
FairStepInit == StepInit /\ c = NewCache(Dims, 1)

\* the scheduler runs every goroutine that can take a step: a goroutine is
\* not kept for ever from a step that stays possible
FairStepSpec ==
    FairStepInit /\ [][StepNext]_vars /\ \A t \in Threads : WF_vars(Step(t))

\* ------------------------------------------------------------------------
\* The vector primitives, called one at a time  (src/hdc/vector.go)
\* A call returns [ok, panic, v, sim]: the vector or the similarity it
\* produced, or the message it panicked with and no result.  The
\* constructors are called on their own (pc = "ctor", arg empty); the other
\* primitives are called on two operands x and y (pc = "ops"), which are
\* any two vectors the constructors can have returned, of equal or of
\* different dimensions.  last holds the last call: its name, its inputs
\* and what it returned.  A behaviour is one call, or one call followed by
\* calls on what it returned (Permute again, Bind again).
\* ------------------------------------------------------------------------

\* longest argument list handed to Bundle
MaxVecs == 4

NoVec == [dims |-> 0, data |-> <<>>]

Ok(v) == [ok |-> TRUE, panic |-> "", v |-> v, sim |-> 0]

OkSim(n) == [ok |-> TRUE, panic |-> "", v |-> NoVec, sim |-> n]

Panic(msg) == [ok |-> FALSE, panic |-> msg, v |-> NoVec, sim |-> 0]

\* New, with its panic
hdcNew(dims) ==
    IF dims <= 0 THEN Panic("hdc: dims must be positive") ELSE Ok(New(dims))

\* FromWords, with its panics
hdcFromWords(dims, data) ==
    IF dims <= 0 THEN Panic("hdc: dims must be positive")
    ELSE IF Len(data) # numWords(dims) THEN Panic("hdc: data length does not match dims")
    ELSE Ok(FromWords(dims, data))

\* Bundle, with its panics
hdcBundle(vecs) ==
    IF Len(vecs) = 0 THEN Panic("hdc: Bundle requires at least one vector")
    ELSE IF ~requireSameDims(vecs) THEN Panic("hdc: dimension mismatch")
    ELSE Ok(Bundle(vecs))

\* Bind, with its panic
hdcBind(a, b) ==
    IF ~requireSameDims(<<a, b>>) THEN Panic("hdc: dimension mismatch") ELSE Ok(Bind(a, b))

\* Similarity, with its panic
hdcSimilarity(a, b) ==
    IF ~requireSameDims(<<a, b>>) THEN Panic("hdc: dimension mismatch")
    ELSE OkSim(Similarity(a, b))

\* the dimensions of the operands: one bit, one bit less than a word, a
\* whole word, one bit more than a word
VecDims == {1, WordBits - 1, WordBits, WordBits + 1}

\* the dimensions asked of the constructors, from below 1
DimOpts == (0 - 1)..(WordBits + 1)

\* words handed to FromWords: none set, the lowest bit, the highest bit, all
WordOpts == {0, 1, Pow2(WordBits - 1), Pow2(WordBits) - 1}

\* the word slices handed to FromWords, of 0, 1 and 2 words
WordSlices == {<<>>} \cup {<<a>> : a \in WordOpts} \cup {<<a, b>> : a, b \in WordOpts}

SeedOpts == {0, 1, 2}

\* every vector of dimension d: what FromWords returns on the slices of
\* numWords(d) words
VectorsOf(d) ==
    {FromWords(d, ws) : ws \in [1..numWords(d) -> 0..(Pow2(WordBits) - 1)]}

Vectors == UNION {VectorsOf(d) : d \in VecDims}

\* the argument lists handed to Bundle: x and y in any order, up to MaxVecs
BundleArgs == UNION {[1..k -> {"x", "y"}] : k \in 0..MaxVecs}

NoOperands == [x |-> NoVec, y |-> NoVec]

NoVecCall == [op |-> "none", d |-> 0, ws |-> <<>>, s |-> <<>>, k |-> 0, out |-> Ok(NoVec)]

VecInit ==
    /\ pc \in {"ctor", "ops"}
    /\ arg \in IF pc = "ctor" THEN {NoOperands} ELSE [x : Vectors, y : Vectors]
    /\ last = NoVecCall
    /\ c = NoCache
    /\ mu = 0
    /\ recency = <<>>
    /\ done = NoneDone
    /\ nops = 0
    /\ sym = NoSym
    /\ lin = NoLin

\* a call of the primitive op has returned out
VecCall(call) ==
    /\ last' = call
    /\ UNCHANGED <<c, mu, pc, arg, recency, done, nops, sym, lin>>

ApplyNew(d) ==
    /\ pc = "ctor"
    /\ last.op = "none"
    /\ VecCall([NoVecCall EXCEPT !.op = "new", !.d = d, !.out = hdcNew(d)])

ApplyFromWords(d, ws) ==
    /\ pc = "ctor"
    /\ last.op = "none"
    /\ VecCall([NoVecCall EXCEPT !.op = "fromwords", !.d = d, !.ws = ws,
                                 !.out = hdcFromWords(d, ws)])

ApplyRandom(d, seed) ==
    /\ pc = "ctor"
    /\ last.op = "none"
    /\ VecCall([NoVecCall EXCEPT !.op = "random", !.d = d, !.out = Ok(Random(d, seed))])

\* Encode of the n-gram encoders on the texts of the cache
ApplyEncode(cfg, text) ==
    /\ pc = "ctor"
    /\ last.op = "none"
    /\ VecCall([NoVecCall EXCEPT !.op = "encode", !.d = cfg.Dims, !.ws = text,
                                 !.out = Ok(EncTable[cfg, text])])

ApplyClone ==
    /\ pc = "ops"
    /\ last.op = "none"
    /\ VecCall([NoVecCall EXCEPT !.op = "clone", !.out = Ok(Clone(arg.x))])

\* x.Permute(), and Permute again on what it returned, up to x.dims times
ApplyPermute ==
    /\ pc = "ops"
    /\ last.op = "none" \/ (last.op = "permute" /\ last.k < arg.x.dims)
    /\ VecCall([NoVecCall EXCEPT !.op = "permute", !.k = last.k + 1,
                                 !.out = Ok(Permute(IF last.op = "none" THEN arg.x
                                                    ELSE last.out.v))])

ApplyBind ==
    /\ pc = "ops"
    /\ last.op = "none"
    /\ VecCall([NoVecCall EXCEPT !.op = "bind", !.out = hdcBind(arg.x, arg.y)])

\* Bind(Bind(x, y), y)
ApplyBindAgain ==
    /\ pc = "ops"
    /\ last.op = "bind"
    /\ last.out.ok
    /\ VecCall([NoVecCall EXCEPT !.op = "bindagain", !.out = hdcBind(last.out.v, arg.y)])

ApplyBundle(s) ==
    /\ pc = "ops"
    /\ last.op = "none"
    /\ VecCall([NoVecCall EXCEPT !.op = "bundle", !.s = s,
                                 !.out = hdcBundle([i \in 1..Len(s) |-> arg[s[i]]])])

ApplySimilarity ==
    /\ pc = "ops"
    /\ last.op = "none"
    /\ VecCall([NoVecCall EXCEPT !.op = "similarity", !.out = hdcSimilarity(arg.x, arg.y)])

VecNext ==
    \/ \E d \in DimOpts : ApplyNew(d)
    \/ \E d \in DimOpts, ws \in WordSlices : ApplyFromWords(d, ws)
    \/ \E d \in VecDims, seed \in SeedOpts : ApplyRandom(d, seed)
    \/ \E cfg \in {CacheCfg, SmallCfg}, x \in Texts : ApplyEncode(cfg, x)
    \/ ApplyClone
    \/ ApplyPermute
    \/ ApplyBind
    \/ ApplyBindAgain
    \/ \E s \in BundleArgs : ApplyBundle(s)
    \/ ApplySimilarity

VecSpec == VecInit /\ [][VecNext]_vars

\* ------------------------------------------------------------------------
\* Encode on a text and on a variant of it  (src/hdc/encoder.go, normalize.go)
\* arg is the text and the Config of the encoder; a call encodes the text
\* and one variant of it: a letter in the other case, a whitespace code
\* point repeated, a whitespace code point replaced by another one, or a
\* whitespace code point put in front or at the end.  last holds the
\* variant and the two vectors.  Normalize runs normalizeSegment on the
\* text and again on what it returned.
\* ------------------------------------------------------------------------

\* longest text encoded with its variants
MaxRunes == 3

\* a, A, space, no-break space, line feed
NormRunes == {97, 65, 32, 160, 10}

\* the whitespace code points a variant puts in
SpaceRunes == {32, 160, 10}

NormTexts == UNION {[1..n -> NormRunes] : n \in 0..MaxRunes}

IsLetter(r) == (r >= 65 /\ r <= 90) \/ (r >= 97 /\ r <= 122)

\* the letter r in the other case
OtherCase(r) == IF r >= 97 THEN r - 32 ELSE r + 32

\* text with the code point r put in before position i (i = Len + 1: at the end)
InsertAt(text, i, r) == SubSeq(text, 1, i - 1) \o <<r>> \o SubSeq(text, i, Len(text))

NoVariant ==
    [op |-> "none", variant |-> <<>>, from |-> 0, to |-> 0,
     a |-> NoVec, b |-> NoVec, n1 |-> <<>>, n2 |-> <<>>]

NormInit ==
    /\ pc = "norm"
    /\ arg \in [text : NormTexts, cfg : {CacheCfg, SmallCfg}]
    /\ last = NoVariant
    /\ c = NoCache
    /\ mu = 0
    /\ recency = <<>>
    /\ done = NoneDone
    /\ nops = 0
    /\ sym = NoSym
    /\ lin = NoLin

\* Encode(text) and Encode(variant) have returned
EncodeBoth(op, variant, from, to) ==
    /\ pc = "norm"
    /\ last.op = "none"
    /\ last' = [NoVariant EXCEPT !.op = op, !.variant = variant, !.from = from, !.to = to,
                                 !.a = Encode(arg.cfg, arg.text),
                                 !.b = Encode(arg.cfg, variant)]
    /\ UNCHANGED <<c, mu, pc, arg, recency, done, nops, sym, lin>>

\* the letter at position i in the other case
VaryCase(i) ==
    /\ IsLetter(arg.text[i])
    /\ EncodeBoth("case", [arg.text EXCEPT ![i] = OtherCase(@)], arg.text[i],
                  OtherCase(arg.text[i]))

\* the whitespace code point at position i twice
VaryRun(i) ==
    /\ IsSpace(arg.text[i])
    /\ EncodeBoth("run", InsertAt(arg.text, i, arg.text[i]), arg.text[i], arg.text[i])

\* the whitespace code point at position i replaced by w
VaryKind(i, w) ==
    /\ IsSpace(arg.text[i])
    /\ w # arg.text[i]
    /\ EncodeBoth("kind", [arg.text EXCEPT ![i] = w], arg.text[i], w)

\* the whitespace code point w in front of the text or at its end
VaryEnds(w, front) ==
    EncodeBoth("ends", IF front THEN <<w>> \o arg.text ELSE Append(arg.text, w), 0, w)

\* normalizeSegment on the text, and on the sentence it returned
Normalize ==
    /\ pc = "norm"
    /\ last.op = "none"
    /\ LET n1 == normalizeSegment(arg.text, arg.cfg.StripPunctuation)
       IN  last' = [NoVariant EXCEPT !.op = "normalize", !.n1 = n1,
                        !.n2 = normalizeSegment(n1, arg.cfg.StripPunctuation)]
    /\ UNCHANGED <<c, mu, pc, arg, recency, done, nops, sym, lin>>

NormNext ==
    \/ \E i \in 1..MaxRunes : i <= Len(arg.text) /\ VaryCase(i)
    \/ \E i \in 1..MaxRunes : i <= Len(arg.text) /\ VaryRun(i)
    \/ \E i \in 1..MaxRunes, w \in SpaceRunes : i <= Len(arg.text) /\ VaryKind(i, w)
    \/ \E w \in SpaceRunes, front \in BOOLEAN : VaryEnds(w, front)
    \/ Normalize

NormSpec == NormInit /\ [][NormNext]_vars

\* ------------------------------------------------------------------------
\* WordPiece tokenizer  (src/embed/tokenizer.go)
\* A string is a sequence of code points; a tokenizer is [vocab, maxToken],
\* vocab being a function from token strings to ids.  len(line), the length
\* in bytes of the UTF-8 form, is kept apart from the length in code points.
\* ------------------------------------------------------------------------

clsTokenID == 101
sepTokenID == 102
unkTokenID == 100
padTokenID == 0

\* longest maxLen handed to Tokenize
MaxSeqLen == 4

\* bytes of the UTF-8 form of a code point of the basic plane
Utf8Len(r) == IF r < 128 THEN 1 ELSE IF r < 2048 THEN 2 ELSE 3

RECURSIVE ByteLen(_)
ByteLen(s) == IF s = <<>> THEN 0 ELSE Utf8Len(Head(s)) + ByteLen(Tail(s))

\* strings.TrimRight(line, "\r")
RECURSIVE TrimRightCR(_)
TrimRightCR(s) ==
    IF s # <<>> /\ s[Len(s)] = 13 THEN TrimRightCR(SubSeq(s, 1, Len(s) - 1)) ELSE s

\* NewWordPieceTokenizer, on the lines of vocabText: line i of the model is
\* line i - 1 of the code and gets the id i - 1; empty lines are skipped, a
\* later line with the same token overwrites the earlier one, and maxToken
\* is the longest len(line)
NewWordPieceTokenizer(lines) ==
    LET line(i) == TrimRightCR(lines[i])
        kept == {i \in 1..Len(lines) : line(i) # <<>>}
        toks == {line(i) : i \in kept}
        lastOf(w) == CHOOSE i \in kept :
                        line(i) = w /\ \A j \in kept : line(j) = w => j <= i
        lens == {ByteLen(w) : w \in toks}
    IN  [vocab |-> [w \in toks |-> lastOf(w) - 1],
         maxToken |-> IF lens = {} THEN 0 ELSE CHOOSE n \in lens : \A m \in lens : m <= n]

\* unicode.In(r, unicode.Mn), restricted to the combining diacritical marks
IsMn(r) == r >= 768 /\ r <= 879

\* unicode.IsControl, restricted to Latin-1
IsControlRune(r) == r <= 31 \/ (r >= 127 /\ r <= 159)

isPunctuation(r) ==
    \/ (r >= 33 /\ r <= 47) \/ (r >= 58 /\ r <= 64)
    \/ (r >= 91 /\ r <= 96) \/ (r >= 123 /\ r <= 126)
    \/ IsPunct(r)

isControl(r) ==
    IF r = 9 \/ r = 10 \/ r = 13 THEN FALSE ELSE IsControlRune(r)

RECURSIVE preprocessLoop(_, _, _)
preprocessLoop(text, i, b) ==
    IF i > Len(text) THEN b
    ELSE LET r == text[i]
         IN  IF IsMn(r) THEN preprocessLoop(text, i + 1, b)
             ELSE IF isPunctuation(r) THEN preprocessLoop(text, i + 1, b \o <<32, r, 32>>)
             ELSE IF IsSpace(r) \/ isControl(r) THEN preprocessLoop(text, i + 1, Append(b, 32))
             ELSE preprocessLoop(text, i + 1, Append(b, r))

\* preprocess: lowercase, strip combining marks, isolate punctuation
preprocess(text) == preprocessLoop(ToLower(text), 1, <<>>)

RECURSIVE fieldsLoop(_, _, _, _)
fieldsLoop(s, i, cur, out) ==
    IF i > Len(s) THEN (IF cur # <<>> THEN Append(out, cur) ELSE out)
    ELSE IF IsSpace(s[i])
         THEN fieldsLoop(s, i + 1, <<>>, IF cur # <<>> THEN Append(out, cur) ELSE out)
         ELSE fieldsLoop(s, i + 1, Append(cur, s[i]), out)

\* strings.Fields
Fields(s) == fieldsLoop(s, 1, <<>>, <<>>)

RECURSIVE matchLoop(_, _, _, _)
\* the inner loop of wordPiece: the longest runes[start:end] in the
\* vocabulary, "##" in front when start > 0; end = start when there is none
matchLoop(tk, runes, start, end) ==
    IF end <= start THEN [found |-> FALSE, end |-> end, id |-> unkTokenID]
    ELSE LET sub == SubSeq(runes, start + 1, end)
             substr == IF start > 0 THEN <<35, 35>> \o sub ELSE sub
         IN  IF substr \in DOMAIN tk.vocab
             THEN [found |-> TRUE, end |-> end, id |-> tk.vocab[substr]]
             ELSE matchLoop(tk, runes, start, end - 1)

RECURSIVE pieceLoop(_, _, _, _)
\* the outer loop of wordPiece; start is 0-based as in the code
pieceLoop(tk, runes, start, ids) ==
    IF start >= Len(runes) THEN ids
    ELSE LET end == IF Len(runes) - start > tk.maxToken THEN start + tk.maxToken
                    ELSE Len(runes)
             m == matchLoop(tk, runes, start, end)
         IN  IF ~m.found THEN <<unkTokenID>>
             ELSE pieceLoop(tk, runes, m.end, Append(ids, m.id))

wordPiece(tk, word) ==
    IF word \in DOMAIN tk.vocab THEN <<tk.vocab[word]>>
    ELSE pieceLoop(tk, word, 0, <<>>)

RECURSIVE wordsLoop(_, _, _, _)
wordsLoop(tk, words, i, ids) ==
    IF i > Len(words) THEN ids
    ELSE wordsLoop(tk, words, i + 1, ids \o wordPiece(tk, words[i]))

\* a Tokenize that truncates to maxLen ids before it appends [SEP]
Tokenize_NoRoomForSep(tk, text, maxLen) ==
    LET all == wordsLoop(tk, Fields(preprocess(text)), 1, <<clsTokenID>>)
        cut == IF maxLen > 0 /\ Len(all) >= maxLen THEN SubSeq(all, 1, maxLen) ELSE all
        ids == Append(cut, sepTokenID)
    IN  [InputIDs |-> ids,
         AttentionMask |-> [i \in 1..Len(ids) |-> 1],
         TokenTypeIDs |-> [i \in 1..Len(ids) |-> 0]]

\* Tokenize
Tokenize(tk, text, maxLen) ==
    LET all == wordsLoop(tk, Fields(preprocess(text)), 1, <<clsTokenID>>)
        cut == IF maxLen > 0 /\ Len(all) >= maxLen THEN SubSeq(all, 1, maxLen - 1) ELSE all
        ids == Append(cut, sepTokenID)
    IN  [InputIDs |-> ids,
         AttentionMask |-> [i \in 1..Len(ids) |-> 1],
         TokenTypeIDs |-> [i \in 1..Len(ids) |-> 0]]

\* a vocabulary with the special tokens at their ids: [PAD], 99 unused
\* lines, [UNK], [CLS], [SEP], then a, ab, ##b, ##c (the line ends in a
\* carriage return) and the full stop
VocabLines ==
    [i \in 1..108 |->
        CASE i = 1 -> <<91, 80, 65, 68, 93>>
          [] i = 101 -> <<91, 85, 78, 75, 93>>
          [] i = 102 -> <<91, 67, 76, 83, 93>>
          [] i = 103 -> <<91, 83, 69, 80, 93>>
          [] i = 104 -> <<97>>
          [] i = 105 -> <<97, 98>>
          [] i = 106 -> <<35, 35, 98>>
          [] i = 107 -> <<35, 35, 99, 13>>
          [] i = 108 -> <<46>>
          [] OTHER -> <<91, 117, 93>>]

Tokenizer == NewWordPieceTokenizer(VocabLines)

\* a, b, c, B, space, full stop, combining acute accent, a control character
TokRunes == {97, 98, 99, 66, 32, 46, 769, 1}

TokTexts == UNION {[1..n -> TokRunes] : n \in 0..MaxRunes}

NoTokens == [op |-> "none", res |-> [InputIDs |-> <<>>, AttentionMask |-> <<>>,
                                     TokenTypeIDs |-> <<>>]]

TokInit ==
    /\ pc = "tok"
    /\ arg \in [text : TokTexts, maxLen : 0..MaxSeqLen]
    /\ last = NoTokens
    /\ c = NoCache
    /\ mu = 0
    /\ recency = <<>>
    /\ done = NoneDone
    /\ nops = 0
    /\ sym = NoSym
    /\ lin = NoLin

\* t.Tokenize(text, maxLen) has returned
CallTokenize ==
    /\ pc = "tok"
    /\ last.op = "none"
    /\ last' = [op |-> "tokenize", res |-> Tokenize(Tokenizer, arg.text, arg.maxLen)]
    /\ UNCHANGED <<c, mu, pc, arg, recency, done, nops, sym, lin>>

TokNext == CallTokenize

TokSpec == TokInit /\ [][TokNext]_vars

\* ------------------------------------------------------------------------
\* The pooled encoder  (src/hdc/encoder.go, first revision; src/hdc/pool.go)
\* Word and count buffers live on a heap, c.words and c.counts, a buffer
\* being named by its index.  mu[e] is the bufPool of encoder e, the sets of
\* buffers put back, and sym[e] its symbol table.  Encode is compiled to the
\* sequence of its pool calls, symbol lookups and in-place operations; a
\* goroutine executes one of them per step: pc[t].prog is what is left of its
\* call and pc[t].regs its local variables (registers <<sentence, chunk,
\* window, role>>).  A register holds a
\* reference: a heap buffer or the vector of a rune in the symbol table.
\* recency[t] is the account of the call of t: the buffers it got from the
\* pool and has not put back.
\* ------------------------------------------------------------------------

\* a window of two code points; every sentence of more than one is chunked
PoolCfg == [SmallCfg EXCEPT !.LongTextThresh = 1]

\* the encoders: two of the same Config
PoolEncoders == {1, 2}

\* ".", no sentence; "a"; "ab", which is chunked; "a.b", two sentences
PoolTexts == {<<46>>, <<97>>, <<97, 98>>, <<97, 46, 98>>}

\* the texts of the two goroutines: the second one runs a short text, or
\* both run the chunked one
PoolPairs ==
    {p \in [Threads -> PoolTexts] :
        \/ p[2] \in {<<46>>, <<97>>}
        \/ (p[1] = <<97, 98>> /\ p[2] = <<97, 98>>)}

Reg(k, j, i, role) == <<k, j, i, role>>
NoReg == Reg(0, 0, 0, 0)

Instr(op, dst, src, cnt, r) == [op |-> op, dst |-> dst, src |-> src, cnt |-> cnt, rune |-> r]

\* a j loop that does not swap: the result is read from permSrc
pingPong_NoSwap(permSrc, permDst, n) ==
    [code |-> [j \in 1..n |-> Instr("permuteInto", permDst, <<permSrc>>, NoReg, 0)],
     src |-> permSrc, dst |-> permDst]

RECURSIVE pingPong(_, _, _)
\* the j loop of encodeWindowInto: permuteInto(permDst, permSrc) and the
\* swap, n times; src of the result holds the permuted vector
pingPong(permSrc, permDst, n) ==
    IF n = 0 THEN [code |-> <<>>, src |-> permSrc, dst |-> permDst]
    ELSE LET rest == pingPong(permDst, permSrc, n - 1)
         IN  [code |-> <<Instr("permuteInto", permDst, <<permSrc>>, NoReg, 0)>> \o rest.code,
              src |-> rest.src, dst |-> rest.dst]

RECURSIVE windowInstrs(_, _, _, _, _)
\* the i loop of encodeWindowInto; i is 0-based as in the code
windowInstrs(dst, runes, i, permSrc, permDst) ==
    IF i >= Len(runes) THEN <<>>
    ELSE LET pp == pingPong(permSrc, permDst, i)
         IN  <<Instr("copySym", permSrc, <<>>, NoReg, runes[i + 1])>>
             \o pp.code
             \o <<Instr("bindInto", dst, <<pp.src>>, NoReg, 0)>>
             \o windowInstrs(dst, runes, i + 1, pp.src, pp.dst)

\* encodeWindowInto: the deferred putWords run last, scratchB first
encodeWindowInto(dst, runes, scratchA, scratchB) ==
    <<Instr("copySym", dst, <<>>, NoReg, runes[1])>>
    \o IF Len(runes) = 1 THEN <<>>
       ELSE <<Instr("getWords", scratchA, <<>>, NoReg, 0),
              Instr("getWords", scratchB, <<>>, NoReg, 0)>>
            \o windowInstrs(dst, runes, 1, scratchA, scratchB)
            \o <<Instr("putWords", scratchB, <<>>, NoReg, 0),
                 Instr("putWords", scratchA, <<>>, NoReg, 0)>>

\* a bundlePooled that hands the result buffer back to the pool
bundlePooled_PutsResult(dst, counts, vecs) ==
    <<Instr("getCounts", counts, <<>>, NoReg, 0),
      Instr("getWords", dst, <<>>, NoReg, 0),
      Instr("bundleInto", dst, vecs, counts, 0),
      Instr("putCounts", counts, <<>>, NoReg, 0),
      Instr("putWords", dst, <<>>, NoReg, 0)>>

\* bundlePooled: the result buffer is not put back
bundlePooled(dst, counts, vecs) ==
    <<Instr("getCounts", counts, <<>>, NoReg, 0),
      Instr("getWords", dst, <<>>, NoReg, 0),
      Instr("bundleInto", dst, vecs, counts, 0),
      Instr("putCounts", counts, <<>>, NoReg, 0)>>

\* encodeRunes of the pooled revision, for chunk j of sentence k
pooledEncodeRunes(cfg, k, j, runes) ==
    LET n == cfg.NGramSize
        res == Reg(k, j, 0, 0)
        count == Len(runes) - n + 1
    IN  IF Len(runes) < n
        THEN IF Len(runes) = 0
             THEN [code |-> <<Instr("New", res, <<>>, NoReg, 0)>>, res |-> res]
             ELSE [code |-> [i \in 1..Len(runes) |->
                                Instr("symGet", Reg(k, j, i, 5), <<>>, NoReg, runes[i])]
                            \o bundlePooled(res, Reg(k, j, 0, 4),
                                            [i \in 1..Len(runes) |-> Reg(k, j, i, 5)]),
                   res |-> res]
        ELSE [code |-> Flatten([i \in 1..count |->
                          <<Instr("getWords", Reg(k, j, i, 1), <<>>, NoReg, 0)>>
                          \o encodeWindowInto(Reg(k, j, i, 1), SubSeq(runes, i, i + n - 1),
                                              Reg(k, j, i, 2), Reg(k, j, i, 3))])
                       \o bundlePooled(res, Reg(k, j, 0, 4), [i \in 1..count |-> Reg(k, j, i, 1)])
                       \o [i \in 1..count |-> Instr("putWords", Reg(k, j, i, 1), <<>>, NoReg, 0)],
              res |-> res]

RECURSIVE pooledChunkLoop(_, _, _, _, _, _)
\* the for loop of encodeChunked; start is 0-based as in the code
pooledChunkLoop(cfg, k, runes, start, code, vecs) ==
    IF start >= Len(runes) THEN [code |-> code, vecs |-> vecs]
    ELSE LET end == Min(start + cfg.ChunkSize, Len(runes))
             chunk == SubSeq(runes, start + 1, end)
             take == Len(chunk) >= cfg.NGramSize \/ Len(vecs) = 0
             e == pooledEncodeRunes(cfg, k, Len(vecs) + 1, chunk)
             code2 == IF take THEN code \o e.code ELSE code
             vecs2 == IF take THEN Append(vecs, e.res) ELSE vecs
         IN  IF end = Len(runes) THEN [code |-> code2, vecs |-> vecs2]
             ELSE pooledChunkLoop(cfg, k, runes, start + cfg.ChunkSize \div 2, code2, vecs2)

\* encodeChunked of the pooled revision, for sentence k
pooledEncodeChunked(cfg, k, runes) ==
    LET l == pooledChunkLoop(cfg, k, runes, 0, <<>>, <<>>)
        res == Reg(k, 0, 0, 0)
    IN  IF Len(l.vecs) = 0
        THEN [code |-> l.code \o <<Instr("New", res, <<>>, NoReg, 0)>>, res |-> res]
        ELSE IF Len(l.vecs) = 1 THEN [code |-> l.code, res |-> l.vecs[1]]
        ELSE [code |-> l.code \o bundlePooled(res, Reg(k, 0, 0, 4), l.vecs), res |-> res]

RECURSIVE pooledSentenceLoop(_, _, _, _, _)
pooledSentenceLoop(cfg, sentences, i, code, vecs) ==
    IF i > Len(sentences) THEN [code |-> code, vecs |-> vecs]
    ELSE LET s == normalizeSegment(sentences[i], cfg.StripPunctuation)
             e == IF Len(s) > cfg.LongTextThresh
                  THEN pooledEncodeChunked(cfg, i, s)
                  ELSE pooledEncodeRunes(cfg, i, 0, s)
         IN  IF s = <<>> THEN pooledSentenceLoop(cfg, sentences, i + 1, code, vecs)
             ELSE pooledSentenceLoop(cfg, sentences, i + 1, code \o e.code, Append(vecs, e.res))

\* NGramEncoder.Encode of the pooled revision: its steps, the return last
pooledEncode(cfg, text) ==
    LET out == Reg(0, 0, 0, 0)
        new == <<Instr("New", out, <<>>, NoReg, 0), Instr("return", out, <<>>, NoReg, 0)>>
    IN  IF text = <<>> THEN new
        ELSE LET l == pooledSentenceLoop(cfg, splitSentences(ToLower(text)), 1, <<>>, <<>>)
             IN  IF Len(l.vecs) = 0 THEN new
                 ELSE IF Len(l.vecs) = 1
                 THEN l.code \o <<Instr("return", l.vecs[1], <<>>, NoReg, 0)>>
                 ELSE l.code \o bundlePooled(out, Reg(0, 0, 0, 4), l.vecs)
                      \o <<Instr("return", out, <<>>, NoReg, 0)>>

Programs == [x \in PoolTexts |-> pooledEncode(PoolCfg, x)]

\* the vector of each text from the second revision of Encode, which
\* allocates every vector
PoolEnc == [x \in PoolTexts |-> Encode(PoolCfg, x)]

BufRef(id) == [kind |-> "buf", id |-> id]
SymRef(r) == [kind |-> "sym", id |-> r]

ZeroWords(dims) == [i \in 1..numWords(dims) |-> 0]
ZeroCounts(dims) == [i \in 1..dims |-> 0]

\* a symbolTable.get whose seed depends on how full the table is
symbolTableGet_SeedByFill(table, cfg, r) ==
    IF r \in DOMAIN table THEN table
    ELSE MapPut(table, r,
                Random(cfg.Dims, symSeed(cfg.Seed + Cardinality(DOMAIN table), r)))

\* symbolTable.get: the table after the call; the vector is table[r]
symbolTableGet(table, cfg, r) ==
    IF r \in DOMAIN table THEN table
    ELSE MapPut(table, r, Random(cfg.Dims, symSeed(cfg.Seed, r)))

RECURSIVE fillTable(_, _, _)
\* the table after symbolTable.get of each of runes in turn
fillTable(table, cfg, runes) ==
    IF runes = <<>> THEN table
    ELSE fillTable(symbolTableGet(table, cfg, Head(runes)), cfg, Tail(runes))

\* what earlier calls have looked up in the second encoder: nothing, or "b"
Prefills == {<<>>, <<98>>}

\* the words behind a reference of a goroutine on encoder e
Deref(heap, table, ref) ==
    IF ref.kind = "sym" THEN table[ref.id].data ELSE heap.words[ref.id]

\* vectorFromBuf: the buffer as a Vector, its padding bits cleared
vectorFromBuf(dims, buf) == zeroPadding(buf, dims)

\* permuteInto
permuteInto(dims, src) == Permute([dims |-> dims, data |-> src]).data

\* bindInto
bindInto(dims, a, b) == Bind([dims |-> dims, data |-> a], [dims |-> dims, data |-> b]).data

\* bundleInto: the counts are added to what counts holds, the majority
\* bits are set in dst
bundleInto(dims, dst, counts, vecs) ==
    LET vs == [i \in 1..Len(vecs) |-> [dims |-> dims, data |-> vecs[i]]]
        cs == [i \in 1..dims |-> counts[i] + SumBits(vs, i - 1, Len(vs))]
        threshold == Len(vecs) \div 2
        bits == [dims |-> dims,
                 data |-> [w \in 1..numWords(dims) |->
                             WordOfBits([i \in 0..(dims - 1) |-> IF cs[i + 1] > threshold THEN 1 ELSE 0],
                                        (w - 1) * WordBits, 0, dims)]]
    IN  [counts |-> cs,
         dst |-> [w \in 1..numWords(dims) |-> OrW(dst[w], bits.data[w], WordBits)]]

\* the buffers a call has got from its pool and not put back
NoneOut == [words |-> {}, counts |-> {}]

NoResult == [returned |-> FALSE, ref |-> BufRef(0), snap |-> <<>>]

PoolInit ==
    /\ c = [words |-> <<>>, counts |-> <<>>]
    /\ mu = [e \in PoolEncoders |-> [words |-> {}, counts |-> {}]]
    /\ arg \in [Threads -> [enc : PoolEncoders, text : PoolTexts]]
    /\ pc = [t \in Threads |-> [prog |-> Programs[arg[t].text], regs |-> <<>>]]
    /\ arg[1].enc = 1
    /\ [t \in Threads |-> arg[t].text] \in PoolPairs
    /\ \E runes \in Prefills :
          /\ runes # <<>> => arg[2].enc = 2
          /\ sym = [e \in PoolEncoders |->
                      IF e = 2 THEN fillTable(<<>>, PoolCfg, runes) ELSE <<>>]
    /\ done = [t \in Threads |-> NoResult]
    /\ last = [op |-> "none", t |-> 0]
    /\ nops = 0
    /\ recency = [t \in Threads |-> NoneOut]
    /\ lin = NoLin

\* the instruction goroutine t is at; pc[t].prog is the rest of its call
Cur(t) == Head(pc[t].prog)

AtOp(t, op) ==
    /\ pc[t].prog # <<>>
    /\ Cur(t).op = op

Advance(t, regs) == pc' = [pc EXCEPT ![t] = [prog |-> Tail(@.prog), regs |-> regs]]

\* a pool that hands out any buffer of the heap
getWords_AnyBuffer(heap, pool, dims) ==
    {[id |-> id,
      heap |-> [heap EXCEPT !.words[id] = ZeroWords(dims)],
      pool |-> [pool EXCEPT !.words = @ \ {id}],
      stale |-> heap.words[id] # ZeroWords(dims)] : id \in 1..Len(heap.words)}
    \cup {[id |-> Len(heap.words) + 1,
           heap |-> [heap EXCEPT !.words = Append(@, ZeroWords(dims))],
           pool |-> pool, stale |-> FALSE]}
\* bufPool.getWords: sync.Pool.Get hands out any buffer put back, or a new
\* one from New; the buffer is cleared
getWords(heap, pool, dims) ==
    {[id |-> id,
      heap |-> [heap EXCEPT !.words[id] = ZeroWords(dims)],
      pool |-> [pool EXCEPT !.words = @ \ {id}],
      stale |-> heap.words[id] # ZeroWords(dims)] : id \in pool.words}
    \cup {[id |-> Len(heap.words) + 1,
           heap |-> [heap EXCEPT !.words = Append(@, ZeroWords(dims))],
           pool |-> pool, stale |-> FALSE]}

\* bufPool.getCounts
getCounts(heap, pool, dims) ==
    {[id |-> id,
      heap |-> [heap EXCEPT !.counts[id] = ZeroCounts(dims)],
      pool |-> [pool EXCEPT !.counts = @ \ {id}]] : id \in pool.counts}
    \cup {[id |-> Len(heap.counts) + 1,
           heap |-> [heap EXCEPT !.counts = Append(@, ZeroCounts(dims))],
           pool |-> pool]}

\* bufPool.putWords
putWords(pool, id) == [pool EXCEPT !.words = @ \cup {id}]

\* bufPool.putCounts
putCounts(pool, id) == [pool EXCEPT !.counts = @ \cup {id}]

\* buf := e.pool.getWords() and vectorFromBuf(e.cfg.Dims, buf)
DoGetWords(t) ==
    /\ AtOp(t, "getWords")
    /\ \E g \in getWords(c, mu[arg[t].enc], PoolCfg.Dims) :
          /\ c' = [g.heap EXCEPT !.words[g.id] = vectorFromBuf(PoolCfg.Dims, @)]
          /\ mu' = [mu EXCEPT ![arg[t].enc] = g.pool]
          /\ Advance(t, MapPut(pc[t].regs, Cur(t).dst, BufRef(g.id)))
          /\ nops' = IF g.stale THEN 1 ELSE nops
          /\ recency' = [recency EXCEPT ![t].words = @ \cup {g.id}]
    /\ last' = [op |-> "getWords", t |-> t]
    /\ UNCHANGED <<arg, done, sym, lin>>

DoPutWords(t) ==
    /\ AtOp(t, "putWords")
    /\ mu' = [mu EXCEPT ![arg[t].enc] = putWords(@, pc[t].regs[Cur(t).dst].id)]
    /\ recency' = [recency EXCEPT ![t].words = @ \ {pc[t].regs[Cur(t).dst].id}]
    /\ Advance(t, pc[t].regs)
    /\ last' = [op |-> "putWords", t |-> t]
    /\ UNCHANGED <<c, arg, done, nops, sym, lin>>

DoGetCounts(t) ==
    /\ AtOp(t, "getCounts")
    /\ \E g \in getCounts(c, mu[arg[t].enc], PoolCfg.Dims) :
          /\ c' = g.heap
          /\ mu' = [mu EXCEPT ![arg[t].enc] = g.pool]
          /\ Advance(t, MapPut(pc[t].regs, Cur(t).dst, BufRef(g.id)))
          /\ recency' = [recency EXCEPT ![t].counts = @ \cup {g.id}]
    /\ last' = [op |-> "getCounts", t |-> t]
    /\ UNCHANGED <<arg, done, nops, sym, lin>>

DoPutCounts(t) ==
    /\ AtOp(t, "putCounts")
    /\ mu' = [mu EXCEPT ![arg[t].enc] = putCounts(@, pc[t].regs[Cur(t).dst].id)]
    /\ recency' = [recency EXCEPT ![t].counts = @ \ {pc[t].regs[Cur(t).dst].id}]
    /\ Advance(t, pc[t].regs)
    /\ last' = [op |-> "putCounts", t |-> t]
    /\ UNCHANGED <<c, arg, done, nops, sym, lin>>

\* vecs[i] = e.sym.get(r)
DoSymGet(t) ==
    /\ AtOp(t, "symGet")
    /\ sym' = [sym EXCEPT ![arg[t].enc] = symbolTableGet(@, PoolCfg, Cur(t).rune)]
    /\ Advance(t, MapPut(pc[t].regs, Cur(t).dst, SymRef(Cur(t).rune)))
    /\ last' = [op |-> "symGet", t |-> t]
    /\ UNCHANGED <<c, mu, arg, recency, done, nops, lin>>

\* sym := e.sym.get(r); copy(dst.data, sym.data)
DoCopySym(t) ==
    /\ AtOp(t, "copySym")
    /\ LET table == symbolTableGet(sym[arg[t].enc], PoolCfg, Cur(t).rune)
       IN  /\ sym' = [sym EXCEPT ![arg[t].enc] = table]
           /\ c' = [c EXCEPT !.words[pc[t].regs[Cur(t).dst].id] = table[Cur(t).rune].data]
    /\ Advance(t, pc[t].regs)
    /\ last' = [op |-> "copySym", t |-> t]
    /\ UNCHANGED <<mu, arg, recency, done, nops, lin>>

\* permuteInto(permDst, permSrc)
DoPermuteInto(t) ==
    /\ AtOp(t, "permuteInto")
    /\ c' = [c EXCEPT !.words[pc[t].regs[Cur(t).dst].id] =
                permuteInto(PoolCfg.Dims,
                            Deref(c, sym[arg[t].enc], pc[t].regs[Cur(t).src[1]]))]
    /\ Advance(t, pc[t].regs)
    /\ last' = [op |-> "permuteInto", t |-> t]
    /\ UNCHANGED <<mu, arg, recency, done, nops, sym, lin>>

\* bindInto(dst, dst, permSrc)
DoBindInto(t) ==
    /\ AtOp(t, "bindInto")
    /\ c' = [c EXCEPT !.words[pc[t].regs[Cur(t).dst].id] =
                bindInto(PoolCfg.Dims, @,
                         Deref(c, sym[arg[t].enc], pc[t].regs[Cur(t).src[1]]))]
    /\ Advance(t, pc[t].regs)
    /\ last' = [op |-> "bindInto", t |-> t]
    /\ UNCHANGED <<mu, arg, recency, done, nops, sym, lin>>

\* bundleInto(dst, counts, vecs)
DoBundleInto(t) ==
    /\ AtOp(t, "bundleInto")
    /\ LET dst == pc[t].regs[Cur(t).dst].id
           cnt == pc[t].regs[Cur(t).cnt].id
           vecs == [i \in 1..Len(Cur(t).src) |->
                       Deref(c, sym[arg[t].enc], pc[t].regs[Cur(t).src[i]])]
           b == bundleInto(PoolCfg.Dims, c.words[dst], c.counts[cnt], vecs)
       IN  c' = [words |-> [c.words EXCEPT ![dst] = b.dst],
                 counts |-> [c.counts EXCEPT ![cnt] = b.counts]]
    /\ Advance(t, pc[t].regs)
    /\ last' = [op |-> "bundleInto", t |-> t]
    /\ UNCHANGED <<mu, arg, recency, done, nops, sym, lin>>

\* New(e.cfg.Dims): a vector that is not from the pool
DoNew(t) ==
    /\ AtOp(t, "New")
    /\ c' = [c EXCEPT !.words = Append(@, New(PoolCfg.Dims).data)]
    /\ Advance(t, MapPut(pc[t].regs, Cur(t).dst, BufRef(Len(c.words) + 1)))
    /\ last' = [op |-> "New", t |-> t]
    /\ UNCHANGED <<mu, arg, recency, done, nops, sym, lin>>

\* Encode returns: the caller holds the vector, whose words are those of
\* the buffer; snap is what they are at the return
DoReturn(t) ==
    /\ AtOp(t, "return")
    /\ done' = [done EXCEPT ![t] =
                  [returned |-> TRUE, ref |-> pc[t].regs[Cur(t).dst],
                   snap |-> Deref(c, sym[arg[t].enc], pc[t].regs[Cur(t).dst])]]
    /\ Advance(t, pc[t].regs)
    /\ last' = [op |-> "return", t |-> t]
    /\ UNCHANGED <<c, mu, arg, recency, nops, sym, lin>>

PoolStep(t) ==
    \/ DoGetWords(t)
    \/ DoPutWords(t)
    \/ DoGetCounts(t)
    \/ DoPutCounts(t)
    \/ DoSymGet(t)
    \/ DoCopySym(t)
    \/ DoPermuteInto(t)
    \/ DoBindInto(t)
    \/ DoBundleInto(t)
    \/ DoNew(t)
    \/ DoReturn(t)

PoolNext == \E t \in Threads : PoolStep(t)

PoolSpec == PoolInit /\ [][PoolNext]_vars

\* ------------------------------------------------------------------------
\* The seed of a symbol vector  (src/hdc/encoder.go, symbolTable.get)
\* One call computes the seed handed to Random for an encoder seed and a
\* code point; seeds are SeedBits wide.
\* ------------------------------------------------------------------------

\* encoder seeds: small ones, the sign bit, the largest ones
EncoderSeeds ==
    {0, 1, 2, 3, 5, 255, Pow2(SeedBits - 1), Pow2(SeedBits - 1) + 1,
     Pow2(SeedBits) - 2, Pow2(SeedBits) - 1}

\* code points: NUL, letters, the no-break space, the euro sign, U+FFFF
SeedRunes == {0, 1, 65, 97, 98, 160, 8364, 65535}

NoSeed == [op |-> "none", out |-> 0]

SeedInit ==
    /\ pc = "seed"
    /\ arg \in [seed : EncoderSeeds, r : SeedRunes]
    /\ last = NoSeed
    /\ c = NoCache
    /\ mu = 0
    /\ recency = <<>>
    /\ done = NoneDone
    /\ nops = 0
    /\ sym = NoSym
    /\ lin = NoLin

\* the argument of Random in symbolTable.get has been computed
ComputeSeed ==
    /\ pc = "seed"
    /\ last.op = "none"
    /\ last' = [op |-> "seed", out |-> symSeed(arg.seed, arg.r)]
    /\ UNCHANGED <<c, mu, pc, arg, recency, done, nops, sym, lin>>

SeedNext == ComputeSeed

SeedSpec == SeedInit /\ [][SeedNext]_vars

\* ------------------------------------------------------------------------
\* The chunk loop of encodeChunked, one iteration at a time
\* (src/hdc/encoder.go:196-220).  The loop's control depends on the rune
\* count only, so a text is kept as its length; a chunk is recorded as the
\* half-open range [start, end) of 0-based rune positions with the flag
\* "take" telling whether its vector was appended to vecs.
\* ------------------------------------------------------------------------
ChunkMaxSize == 5
ChunkMaxNGram == 4
ChunkMaxLen == 8

\* a stride of the whole chunk: no overlap
chunkStride_Whole(size) == size
\* stride := size / 2
chunkStride(size) == size \div 2

\* encodeChunked is entered with len(runes) > LongTextThresh >= 1, under a
\* Config that NewNGramEncoder accepted
ChunkArgs ==
    {a \in [size : 1..ChunkMaxSize, ngram : 1..ChunkMaxNGram, len : 2..ChunkMaxLen] :
        NewNGramEncoder([SmallCfg EXCEPT !.ChunkSize = a.size,
                                         !.NGramSize = a.ngram]).ok}

NoChunks == [op |-> "none", chunks |-> <<>>, nvecs |-> 0, ret |-> "none"]

ChunkInit ==
    /\ pc = [at |-> "loop", start |-> 0]
    /\ arg \in ChunkArgs
    /\ last = NoChunks
    /\ c = NoCache /\ mu = 0 /\ recency = <<>> /\ done = NoneDone
    /\ nops = 0 /\ sym = NoSym /\ lin = NoLin

\* one iteration of the for loop: the chunk, the append, the break
ChunkIter ==
    /\ pc.at = "loop"
    /\ pc.start < arg.len
    /\ LET end == Min(pc.start + arg.size, arg.len)
           take == (end - pc.start) >= arg.ngram \/ last.nvecs = 0
       IN  /\ last' = [last EXCEPT
                          !.op = "iter",
                          !.chunks = Append(@, [start |-> pc.start, end |-> end,
                                                take |-> take]),
                          !.nvecs = IF take THEN @ + 1 ELSE @]
           /\ pc' = IF end = arg.len
                    THEN [pc EXCEPT !.at = "ret"]
                    ELSE [pc EXCEPT !.start = @ + chunkStride(arg.size)]
    /\ UNCHANGED <<c, mu, arg, recency, done, nops, sym, lin>>

\* after the loop (left by the break or by its condition): the return
ChunkReturn ==
    /\ pc.at = "ret" \/ (pc.at = "loop" /\ pc.start >= arg.len)
    /\ pc' = [pc EXCEPT !.at = "done"]
    /\ last' = [last EXCEPT
                   !.op = "return",
                   !.ret = IF last.nvecs = 0 THEN "zero"
                           ELSE IF last.nvecs = 1 THEN "single" ELSE "bundle"]
    /\ UNCHANGED <<c, mu, arg, recency, done, nops, sym, lin>>

ChunkNext == ChunkIter \/ ChunkReturn

ChunkSpec == ChunkInit /\ [][ChunkNext]_vars

\* the goroutine running Encode keeps running
ChunkLive == ChunkInit /\ [][ChunkNext]_vars /\ WF_vars(ChunkNext)

\* ------------------------------------------------------------------------
\* symbolTable.get under concurrent first access  (src/hdc/encoder.go:230-247)
\* Every goroutine calls get a bounded number of times, each lock operation
\* and each critical section a step of its own.  sym.table is the map,
\* sym.readers and sym.writer the holders of the RWMutex and sym.stores the
\* number of assignments t.table[r] = v made for each rune; arg[t] holds the
\* locals r and v of the call of t, and done[t] what its calls returned.
\* ------------------------------------------------------------------------

\* calls of get per goroutine
SymCalls == 2

\* "a", "b"
SymRunes == {97, 98}

\* a get that assigns without looking the rune up again under the write lock
symStore_NoRecheck(s, cfg, r) ==
    [s EXCEPT !.table = IF r \in DOMAIN @ THEN [@ EXCEPT ![r] = symGet(cfg, r)]
                        ELSE MapPut(@, r, symGet(cfg, r)),
              !.stores[r] = @ + 1]

\* if v, ok = t.table[r]; ok { return v }; v = Random(...); t.table[r] = v
symStore(s, cfg, r) ==
    IF r \in DOMAIN s.table THEN s
    ELSE [s EXCEPT !.table = MapPut(@, r, symGet(cfg, r)),
                   !.stores[r] = @ + 1]

SymTabInit ==
    /\ sym = [table |-> <<>>, readers |-> {}, writer |-> 0,
              stores |-> [r \in SymRunes |-> 0]]
    /\ pc = [t \in Threads |-> "idle"]
    /\ arg = [t \in Threads |-> [r |-> 0]]
    /\ done = [t \in Threads |-> <<>>]
    /\ last = [op |-> "none", t |-> 0]
    /\ c = NoCache /\ mu = 0 /\ recency = <<>> /\ nops = 0 /\ lin = NoLin

\* e.sym.get(r) is called
SymGetCall(t, r) ==
    /\ pc[t] = "idle"
    /\ Len(done[t]) < SymCalls
    /\ arg' = [arg EXCEPT ![t] = [r |-> r]]
    /\ pc' = [pc EXCEPT ![t] = "rlock"]
    /\ last' = [op |-> "call", t |-> t]
    /\ UNCHANGED <<c, mu, recency, done, nops, sym, lin>>

\* t.mu.RLock()
SymGetRLock(t) ==
    /\ pc[t] = "rlock"
    /\ sym.writer = 0
    /\ sym' = [sym EXCEPT !.readers = @ \cup {t}]
    /\ pc' = [pc EXCEPT ![t] = "lookup"]
    /\ last' = [op |-> "rlock", t |-> t]
    /\ UNCHANGED <<c, mu, arg, recency, done, nops, lin>>

\* v, ok := t.table[r]; t.mu.RUnlock(); if ok { return v }
SymGetLookup(t) ==
    /\ pc[t] = "lookup"
    /\ sym' = [sym EXCEPT !.readers = @ \ {t}]
    /\ IF arg[t].r \in DOMAIN sym.table
       THEN /\ done' = [done EXCEPT ![t] = Append(@, [r |-> arg[t].r,
                                                       v |-> sym.table[arg[t].r]])]
            /\ pc' = [pc EXCEPT ![t] = "idle"]
       ELSE /\ pc' = [pc EXCEPT ![t] = "lock"]
            /\ UNCHANGED done
    /\ last' = [op |-> "lookup", t |-> t]
    /\ UNCHANGED <<c, mu, arg, recency, nops, lin>>

\* t.mu.Lock()
SymGetLock(t) ==
    /\ pc[t] = "lock"
    /\ sym.writer = 0
    /\ sym.readers = {}
    /\ sym' = [sym EXCEPT !.writer = t]
    /\ pc' = [pc EXCEPT ![t] = "store"]
    /\ last' = [op |-> "lock", t |-> t]
    /\ UNCHANGED <<c, mu, arg, recency, done, nops, lin>>

\* the second lookup, the store, return v and the deferred Unlock
SymGetStore(t) ==
    /\ pc[t] = "store"
    /\ LET s == symStore(sym, CacheCfg, arg[t].r)
       IN  /\ sym' = [s EXCEPT !.writer = 0]
           /\ done' = [done EXCEPT ![t] = Append(@, [r |-> arg[t].r,
                                                     v |-> s.table[arg[t].r]])]
    /\ pc' = [pc EXCEPT ![t] = "idle"]
    /\ last' = [op |-> "store", t |-> t]
    /\ UNCHANGED <<c, mu, arg, recency, nops, lin>>

SymTabNext ==
    \E t \in Threads :
        \/ \E r \in SymRunes : SymGetCall(t, r)
        \/ SymGetRLock(t)
        \/ SymGetLookup(t)
        \/ SymGetLock(t)
        \/ SymGetStore(t)

SymTabSpec == SymTabInit /\ [][SymTabNext]_vars

\* ------------------------------------------------------------------------
\* Get over entries of another dimension  (src/cache/cache.go:107-123,
\* 181-193; src/hdc/vector.go:115-139)
\* cache.New takes any hdc.Encoder.  The encoder here breaks the contract of
\* one dimension: it encodes a key of one rune at Dims and a longer key at
\* Dims + 1, so that scanLocked can meet an entry whose vector has another
\* dimension than the query, where hdc.Similarity panics.  A goroutine whose
\* Get panicked is at "panicked" and makes no further call.
\* ------------------------------------------------------------------------

MixEnc ==
    [k \in StepKeys |->
        Encode([CacheCfg EXCEPT !.Dims = IF Len(k) = 1 THEN Dims ELSE Dims + 1], k)]

\* scanLocked calls Similarity(vec, e.vec) on every element of the list:
\* TRUE iff requireSameDims panics on one of them
scanPanics(cs, vec) ==
    \E i \in 1..Len(cs.lru) : ~requireSameDims(<<vec, cs.elems[cs.lru[i]].vec>>)

\* an Unlock at the end of Get, which a panic skips
deferredUnlock_SkippedByPanic(t, panicking) == IF panicking THEN t ELSE 0
\* defer c.mu.Unlock(): runs when Get returns and when a panic unwinds it
deferredUnlock(t, panicking) == 0

MixInit ==
    /\ c \in {NewCache(th, MaxCap) : th \in Thresholds}
    /\ mu = 0
    /\ pc = [t \in Threads |-> "idle"]
    /\ arg = [t \in Threads |-> NoArg]
    /\ last = NoLast
    /\ recency = <<>>
    /\ done = NoneDone
    /\ nops = 0
    /\ sym = NoSym
    /\ lin = NoLin

\* Set: vec := c.enc.Encode(key), before the lock
MixCallSet(t, k, v) ==
    /\ pc[t] = "idle"
    /\ nops < MaxOps
    /\ arg' = [arg EXCEPT ![t] = [key |-> k, value |-> v, vec |-> MixEnc[k]]]
    /\ pc' = [pc EXCEPT ![t] = "set_lock"]
    /\ nops' = nops + 1
    /\ UNCHANGED <<c, mu, last, recency, done, sym, lin>>

\* Get: vec := c.enc.Encode(key), before the lock
MixCallGet(t, k) ==
    /\ pc[t] = "idle"
    /\ nops < MaxOps
    /\ arg' = [arg EXCEPT ![t] = [key |-> k, value |-> Nil, vec |-> MixEnc[k]]]
    /\ pc' = [pc EXCEPT ![t] = "get_lock"]
    /\ nops' = nops + 1
    /\ UNCHANGED <<c, mu, last, recency, done, sym, lin>>

\* the critical section of Get when Similarity panics inside scanLocked:
\* nothing after the scan runs, the deferred Unlock does
GetPanic(t) ==
    /\ pc[t] = "get_cs"
    /\ mu = t
    /\ scanPanics(c, arg[t].vec)
    /\ mu' = deferredUnlock(t, TRUE)
    /\ pc' = [pc EXCEPT ![t] = "panicked"]
    /\ last' = [NoLast EXCEPT !.op = "panic", !.key = arg[t].key,
                              !.ret = "hdc: dimension mismatch"]
    /\ UNCHANGED <<c, arg, recency, done, nops, sym, lin>>

\* the critical section of Get: the scan panics or Get goes on as usual
MixGetBody(t) ==
    \/ GetPanic(t)
    \/ (~scanPanics(c, arg[t].vec) /\ GetBody(t))

MixNext ==
    \E t \in Threads :
        \/ \E k \in StepKeys, v \in Values : MixCallSet(t, k, v)
        \/ \E k \in StepKeys : MixCallGet(t, k)
        \/ Lock(t)
        \/ SetBody(t)
        \/ MixGetBody(t)

MixSpec == MixInit /\ [][MixNext]_vars

\* ------------------------------------------------------------------------
\* The transformer encoder  (src/embed/encoder.go:150-216,
\* src/embed/tokenizer.go:87-95)
\* Embed tokenizes, pads, builds the tensors and runs the ONNX session.  The
\* session and the tensors belong to the ONNX runtime, outside the
\* repository: whether a tensor or the inference fails is a choice the
\* model leaves open, and so is the vector that Project makes of a
\* successful embedding.  NewMiniLMEncoder refuses maxSeqLen < 3.
\* ------------------------------------------------------------------------

\* a padding whose mask is 1 on the [PAD] positions too
PadTo_MaskOne(r, n) ==
    IF Len(r.InputIDs) >= n THEN r
    ELSE LET k == n - Len(r.InputIDs)
         IN  [InputIDs |-> r.InputIDs \o [i \in 1..k |-> padTokenID],
              AttentionMask |-> r.AttentionMask \o [i \in 1..k |-> 1],
              TokenTypeIDs |-> r.TokenTypeIDs \o [i \in 1..k |-> 0]]

\* PadTo: [PAD], mask 0 and type 0 appended while the length is below n
PadTo(r, n) ==
    IF Len(r.InputIDs) >= n THEN r
    ELSE LET k == n - Len(r.InputIDs)
         IN  [InputIDs |-> r.InputIDs \o [i \in 1..k |-> padTokenID],
              AttentionMask |-> r.AttentionMask \o [i \in 1..k |-> 0],
              TokenTypeIDs |-> r.TokenTypeIDs \o [i \in 1..k |-> 0]]

\* where Embed can return an error, and "nil"
EmbedErrors ==
    {"nil",
     "embed: creating input_ids tensor",
     "embed: creating attention_mask tensor",
     "embed: creating token_type_ids tensor",
     "embed: creating output tensor",
     "embed: ONNX inference failed"}

\* Encode after Embed: the zero vector on an error, else the projection
embedEncode(err, projected, binaryDims) ==
    IF err # "nil" THEN New(binaryDims) ELSE projected

EmbedArgs ==
    [text : TokTexts, maxSeqLen : 3..MaxSeqLen, binaryDims : {WordBits, Dims}]

NoEmbed ==
    [op |-> "none", tokens |-> NoTokens.res, seqLen |-> 0, err |-> "nil",
     vec |-> New(Dims)]

EmbedInit ==
    /\ pc = "tokenize"
    /\ arg \in EmbedArgs
    /\ last = NoEmbed
    /\ c = NoCache /\ mu = 0 /\ recency = <<>> /\ done = NoneDone
    /\ nops = 0 /\ sym = NoSym /\ lin = NoLin

\* tokens := e.tokenizer.Tokenize(text, e.maxSeqLen);
\* seqLen := len(tokens.InputIDs); tokens.PadTo(e.maxSeqLen)
EmbedTokenize ==
    /\ pc = "tokenize"
    /\ LET tokens == Tokenize(Tokenizer, arg.text, arg.maxSeqLen)
       IN  last' = [last EXCEPT !.op = "pad",
                                !.seqLen = Len(tokens.InputIDs),
                                !.tokens = PadTo(tokens, arg.maxSeqLen)]
    /\ pc' = "run"
    /\ UNCHANGED <<c, mu, arg, recency, done, nops, sym, lin>>

\* the tensors, the inference, and what Encode returns
EncodeReturn ==
    /\ pc = "run"
    /\ \E err \in EmbedErrors, seed \in {1, 2} :
          last' = [last EXCEPT !.op = "encode", !.err = err,
                               !.vec = embedEncode(err, Random(arg.binaryDims, seed),
                                                   arg.binaryDims)]
    /\ pc' = "done"
    /\ UNCHANGED <<c, mu, arg, recency, done, nops, sym, lin>>

EmbedNext == EmbedTokenize \/ EncodeReturn

EmbedSpec == EmbedInit /\ [][EmbedNext]_vars

\* ------------------------------------------------------------------------
\* Properties
\* ------------------------------------------------------------------------

\* the entries in the list, front (most recently used) first
Entries(cs) == [i \in 1..Len(cs.lru) |-> cs.elems[cs.lru[i]]]

\* the similarity of vec to every stored entry, front first
Sims(cs, vec) == [i \in 1..Len(cs.lru) |-> Similarity(vec, cs.elems[cs.lru[i]].vec)]

SeqRange(q) == {q[i] : i \in 1..Len(q)}

MaxOf(S) == CHOOSE x \in S : \A y \in S : y <= x

\* this step is goroutine t leaving the critical section of Set, Get, Delete
SetStep(t) == pc[t] = "set_cs" /\ pc'[t] = "idle"
GetStep(t) == pc[t] = "get_cs" /\ pc'[t] = "idle"
DeleteStep(t) == pc[t] = "delete_cs" /\ pc'[t] = "idle"

Counters(cs) == <<cs.hits, cs.misses, cs.sets, cs.simSum>>

\* C1: a Get hits iff some stored entry has similarity >= threshold to the
\* query; on a hit the similarity returned is the maximum over all stored
\* entries and the value returned is that of an entry attaining it; on a miss
\* Get returns (nil, false, 0).
C1_GetBestMatch ==
    [][\A t \in Threads : GetStep(t) =>
        LET sims == Sims(c, arg[t].vec)
        IN  /\ last'.ok <=> (\E i \in 1..Len(sims) : sims[i] >= c.threshold)
            /\ last'.ok =>
                  /\ last'.sim = MaxOf(SeqRange(sims))
                  /\ \E i \in 1..Len(sims) :
                        /\ sims[i] = last'.sim
                        /\ Entries(c)[i].value = last'.ret
                        /\ Entries(c)[i].key = last'.hitKey
            /\ ~last'.ok => last'.ret = Nil /\ last'.sim = 0]_vars

\* a Get has hit an entry that was not at the front, past a more recent entry
\* that was itself at or above the threshold but less similar
C1_Witness ==
    /\ last.op = "get" /\ last.ok /\ last.pos >= 2
    /\ \E i \in 2..Len(c.lru) :
          /\ Sims(c, EncOf[last.key])[i] >= c.threshold
          /\ Sims(c, EncOf[last.key])[i] < last.sim

\* C2: the number of stored entries never exceeds the capacity.
C2_LenWithinCapacity == Len(c.lru) <= c.capacity /\ c.capacity >= 1

\* a Set on a full cache has evicted an entry, and the cache is full again
C2_Witness ==
    last.op = "set" /\ last.removed # {} /\ Len(c.lru) = c.capacity /\ c.capacity >= 2

\* C3: whenever the mutex is free the index and the list hold the same
\* entries: every index key maps to a list element whose entry has that key,
\* every list element's key is in the index, no key is in two list elements.
C3_IndexMatchesList ==
    mu = 0 =>
        /\ \A k \in DOMAIN c.index :
              /\ c.index[k] \in SeqRange(c.lru)
              /\ c.elems[c.index[k]].key = k
        /\ \A i \in 1..Len(c.lru) : c.elems[c.lru[i]].key \in DOMAIN c.index
        /\ \A i, j \in 1..Len(c.lru) :
              c.elems[c.lru[i]].key = c.elems[c.lru[j]].key => i = j

\* the mutex is free, two entries are stored and the last operation removed one
C3_Witness == mu = 0 /\ Len(c.lru) = 2 /\ last.removed # {}

\* C4: a Set of a key not in the index on a cache holding exactly capacity
\* entries removes exactly the entry at the LRU end, which is the entry whose
\* latest insertion, update or Get hit is the oldest; every other entry is
\* kept, in order, and the new entry is put at the MRU end.
C4_EvictsLRUEnd ==
    [][\A t \in Threads :
        (SetStep(t) /\ arg[t].key \notin DOMAIN c.index /\ Len(c.lru) = c.capacity) =>
            /\ Entries(c') =
                  <<[key |-> arg[t].key, vec |-> arg[t].vec, value |-> arg[t].value]>>
                      \o SubSeq(Entries(c), 1, Len(c.lru) - 1)
            /\ last'.removed = {Entries(c)[Len(c.lru)].key}
            /\ Entries(c)[Len(c.lru)].key = recency[Len(recency)]
            /\ DOMAIN c'.index = (DOMAIN c.index \ last'.removed) \cup {arg[t].key}]_vars

\* a Set of a new key has evicted an entry from a full cache of two entries
C4_Witness ==
    /\ last.op = "set" /\ last.pos = 0 /\ Cardinality(last.removed) = 1
    /\ c.capacity = 2 /\ Len(c.lru) = 2
    /\ Entries(c)[1].key = last.key

\* C5: a Get that hits moves the matched entry to the MRU end, a Set of a
\* stored key moves that entry to the MRU end; the other entries keep their
\* relative order, so the promoted entry is the last of them to be evicted.
C5_PromotesToMRU ==
    [][\A t \in Threads :
        /\ (GetStep(t) /\ last'.ok) =>
              /\ Entries(c') =
                    <<Entries(c)[last'.pos]>>
                        \o SelectSeq(Entries(c), LAMBDA e : e.key # last'.hitKey)
              /\ Len(c'.lru) > 1 => Entries(c')[Len(c'.lru)].key # last'.hitKey
        /\ (SetStep(t) /\ arg[t].key \in DOMAIN c.index) =>
              /\ Entries(c')[1].key = arg[t].key
              /\ Tail(Entries(c')) = SelectSeq(Entries(c), LAMBDA e : e.key # arg[t].key)
              /\ Len(c'.lru) > 1 => Entries(c')[Len(c'.lru)].key # arg[t].key]_vars

\* a Get has hit the entry of another key than the one queried, which stood
\* behind another entry and is now at the front
C5_Witness ==
    /\ last.op = "get" /\ last.ok /\ last.hitKey # last.key /\ last.pos = 2
    /\ Entries(c)[1].key = last.hitKey

\* C6: a Set of a key identical to a stored key replaces that entry's value
\* and vector in place: the same list element holds it, the number of entries
\* is unchanged, nothing is evicted even at capacity, and no second entry for
\* the key appears.
C6_UpdateInPlace ==
    [][\A t \in Threads :
        (SetStep(t) /\ arg[t].key \in DOMAIN c.index) =>
            /\ Len(c'.lru) = Len(c.lru)
            /\ KeySet(c') = KeySet(c)
            /\ DOMAIN c'.index = DOMAIN c.index
            /\ c'.index[arg[t].key] = c.index[arg[t].key]
            /\ c'.elems[c'.index[arg[t].key]] =
                  [key |-> arg[t].key, vec |-> arg[t].vec, value |-> arg[t].value]
            /\ Cardinality({i \in 1..Len(c'.lru) : Entries(c')[i].key = arg[t].key}) = 1
            /\ \A e \in DOMAIN c.elems :
                  c.elems[e].key # arg[t].key => e \in DOMAIN c'.elems /\ c'.elems[e] = c.elems[e]]_vars

\* a Set has updated a stored key with a new value on a full cache that holds
\* another entry too, and evicted nothing
C6_Witness ==
    /\ last.op = "set" /\ last.pos = 2 /\ last.removed = {}
    /\ Len(c.lru) = c.capacity
    /\ Entries(c)[1].key = last.key /\ Entries(c)[1].value = last.value

\* C7: a Get(k) whose critical section directly follows that of Set(k, v)
\* returns (v, true, 1.0).
C7_SetThenGet ==
    [][\A t \in Threads :
        (GetStep(t) /\ last.op = "set" /\ last.key = arg[t].key) =>
            /\ last'.ok
            /\ last'.ret = last.value
            /\ last'.sim = Dims]_vars

\* Set(k, v) then Get(k), while an entry of another key with the same vector
\* is stored: the Get hit k's own entry with similarity 1.0
C7_Witness ==
    /\ last.op = "get" /\ last.ok /\ last.sim = Dims /\ last.hitKey = last.key
    /\ c.hits = 1 /\ c.misses = 0 /\ nops = 3 /\ c.sets = 2
    /\ Len(c.lru) = 2
    /\ Entries(c)[2].vec = Entries(c)[1].vec

\* C8: Delete(k) returns true and removes the entry of k from the index and
\* the list iff k is identical to a stored key; otherwise it returns false
\* and changes no entry, no order and no counter.
C8_DeleteExactKey ==
    [][\A t \in Threads : DeleteStep(t) =>
        LET k == arg[t].key
        IN  /\ last'.ok <=> k \in KeySet(c)
            /\ last'.ok =>
                  /\ DOMAIN c'.index = DOMAIN c.index \ {k}
                  /\ \A x \in DOMAIN c'.index : c'.index[x] = c.index[x]
                  /\ Entries(c') = SelectSeq(Entries(c), LAMBDA e : e.key # k)
                  /\ Counters(c') = Counters(c)
            /\ ~last'.ok => c' = c]_vars

\* a Delete has returned false for a key that is not stored although a
\* stored key encodes to the same vector
C8_Witness ==
    /\ last.op = "delete" /\ ~last.ok
    /\ \E i \in 1..Len(c.lru) :
          Entries(c)[i].key # last.key /\ Entries(c)[i].vec = EncOf[last.key]

\* C9: a Delete that returns true drops the entry count by exactly one; an
\* entry removed by Delete or by eviction is not in the list, a key that is
\* not in the list comes back only by a Set of that key, and a Get that hits
\* returns the value of an entry that is in the list: so no later Get returns
\* the removed entry until its key is set again.
C9_RemovedStaysRemoved ==
    [][/\ \A t \in Threads :
            /\ (DeleteStep(t) /\ last'.ok) =>
                  /\ Len(c'.lru) = Len(c.lru) - 1
                  /\ last'.removed = {arg[t].key}
            /\ (GetStep(t) /\ last'.ok) =>
                  \E i \in 1..Len(c.lru) :
                      Entries(c)[i].key = last'.hitKey /\ Entries(c)[i].value = last'.ret
            /\ SetStep(t) => Len(c'.lru) = Len(c.lru) + 1 - Cardinality(last'.removed)
                                - (IF arg[t].key \in KeySet(c) THEN 1 ELSE 0)
       /\ \A k \in Keys :
            /\ (k \in KeySet(c) /\ k \notin KeySet(c')) =>
                  k \in last'.removed /\ k \notin DOMAIN c'.index
            /\ (k \notin KeySet(c) /\ k \in KeySet(c')) =>
                  \E t \in Threads : SetStep(t) /\ arg[t].key = k]_vars

\* Set(k), Delete(k) = true, then Get(k) missed on the empty cache
C9_Witness ==
    /\ last.op = "get" /\ ~last.ok
    /\ c.sets = 1 /\ c.misses = 1 /\ nops = 3 /\ Len(c.lru) = 0
    /\ \A t \in Threads : pc[t] = "idle"

\* C10: among the stored entries that share the maximal similarity to the
\* query, Get returns the one nearest the MRU end.
C10_TieToMostRecent ==
    [][\A t \in Threads : (GetStep(t) /\ last'.ok) =>
        LET sims == Sims(c, arg[t].vec)
        IN  /\ last'.pos \in 1..Len(sims)
            /\ sims[last'.pos] = last'.sim
            /\ Entries(c)[last'.pos].value = last'.ret
            /\ \A j \in 1..(last'.pos - 1) : sims[j] < last'.sim]_vars

\* a Get has hit the front entry while an entry with another vector, further
\* back, has the same similarity to the query
C10_Witness ==
    /\ last.op = "get" /\ last.ok /\ last.pos = 1
    /\ \E i \in 2..Len(c.lru) :
          /\ Sims(c, EncOf[last.key])[i] = last.sim
          /\ Entries(c)[i].vec # Entries(c)[1].vec

\* this step is a goroutine leaving the critical section of Len or Stats
LenStep(t) == pc[t] = "len_cs" /\ pc'[t] = "idle"
StatsStep(t) == pc[t] = "stats_cs" /\ pc'[t] = "idle"

\* two rates <<numerator, denominator>> are the same number
SameRate(p, q) == p[1] * q[2] = q[1] * p[2]

\* C11: a Get that misses adds one to the miss counter and changes nothing
\* else: the entries, their values and vectors, the order of the list, the
\* index and the other counters are as before.
C11_MissChangesNothing ==
    [][\A t \in Threads : (GetStep(t) /\ ~last'.ok) =>
        /\ c' = [c EXCEPT !.misses = @ + 1]
        /\ Entries(c') = Entries(c)
        /\ c'.index = c.index]_vars

\* a Get has missed on a cache that holds two entries
C11_Witness ==
    /\ last.op = "get" /\ ~last.ok /\ Len(c.lru) = 2 /\ c.misses >= 1

\* C12: hits + misses is the number of Get calls that have returned and sets
\* the number of Set calls that have returned, updates of a stored key
\* included, in every state and so once all calls have returned; Delete, Len
\* and Stats change no counter.
C12_CountersCountCalls ==
    /\ [](/\ c.hits + c.misses = done.gets
          /\ c.sets = done.sets)
    /\ [][\A t \in Threads :
            (DeleteStep(t) \/ LenStep(t) \/ StatsStep(t)) => Counters(c') = Counters(c)]_vars

\* all calls have returned: two Sets of one key, the second an update, and a
\* Delete that found nothing
C12_Witness ==
    /\ \A t \in Threads : pc[t] = "idle"
    /\ nops = MaxOps
    /\ done.sets > Len(c.lru) /\ Len(c.lru) = 1
    /\ last.op = "delete" /\ ~last.ok

\* C13: a Stats snapshot reports hits/(hits+misses) as its hit rate and the
\* sum of the similarities returned by the Gets that hit, divided by hits, as
\* its average similarity, each 0 when its denominator is 0, and the number
\* of entries at the instant of the snapshot.  (While last.op = "stats" no
\* critical section has run since the snapshot, so c is the cache it saw.)
C13_StatsSnapshot ==
    last.op = "stats" =>
        /\ last.stats.Entries = Len(c.lru)
        /\ last.stats.Hits = c.hits /\ last.stats.Misses = c.misses
        /\ last.stats.Sets = c.sets
        /\ IF c.hits + c.misses = 0
           THEN last.stats.HitRate = <<0, 1>>
           ELSE SameRate(last.stats.HitRate, <<c.hits, c.hits + c.misses>>)
        /\ IF c.hits = 0
           THEN last.stats.AvgSimOnHit = <<0, 1>>
           ELSE SameRate(last.stats.AvgSimOnHit, <<done.simTotal, c.hits>>)

\* a snapshot taken after a Get that hit with a similarity below 1.0
C13_Witness ==
    /\ last.op = "stats" /\ c.hits = 1 /\ c.misses = 0
    /\ done.simTotal > 0 /\ done.simTotal < Dims
    /\ last.stats.AvgSimOnHit = <<done.simTotal, 1>>
    /\ last.stats.Entries = 1

\* the vector has no bit set
IsZero(v) == \A i \in 1..Len(v.data) : v.data[i] = 0

\* C17: cache.New panics, and returns no cache, exactly when the capacity
\* is <= 0 or the threshold is <= 0 or > 1, and otherwise returns an empty
\* cache with that threshold and capacity; xordb.New hands its threshold and
\* capacity options to the same check unchanged: it panics on the same
\* values, and the cache it returns has the two values it was given.
C17_ConstructionValidates ==
    last.op = "new" =>
        LET bad == arg.capacity <= 0 \/ arg.threshold <= 0 \/ arg.threshold > Dims
        IN  /\ arg.fn = "cache.New" =>
                  /\ (pc = "panic") <=> bad
                  /\ (pc = "ready") <=> ~bad
                  /\ pc = "ready" =>
                        /\ c.threshold = arg.threshold /\ c.capacity = arg.capacity
                        /\ c.lru = <<>> /\ DOMAIN c.index = {}
            /\ arg.fn = "xordb.New" =>
                  /\ bad => pc = "panic"
                  /\ (~bad /\ arg.dims > 0 /\ arg.ngram > 0) => pc = "ready"
                  /\ pc = "ready" =>
                        /\ c.threshold = arg.threshold /\ c.capacity = arg.capacity
                        /\ c.lru = <<>> /\ DOMAIN c.index = {}

\* xordb.New has panicked on a threshold above 1.0, all its other options
\* being valid
C17_Witness ==
    /\ last.op = "new" /\ pc = "panic" /\ arg.fn = "xordb.New"
    /\ arg.threshold = Dims + 1 /\ arg.capacity >= 1
    /\ arg.dims > 0 /\ arg.ngram > 0

\* C18: no constructor returns a cache whose encoder is nil: a construction
\* with a nil encoder fails before any Set or Get can be called.
C18_NilEncoderFailsAtConstruction ==
    pc = "ready" => c.enc.kind # "nil"

C20_ZeroQueryNeverHitsNonZero ==
    (pc = "ready" /\ last.op = "get" /\ last.ok /\ IsZero(EncTable[c.enc.cfg, last.key]))
        => IsZero(Entries(c)[1].vec)

\* goroutine t is inside Encode, between two steps of symbolTable.get
InEncode(t) == pc[t] \in {"sym_rlock", "sym_lookup", "sym_lock", "sym_store"}

\* goroutine t is between c.mu.Lock() and c.mu.Unlock()
InCS(t) ==
    pc[t] \in {"set_lookup", "set_insert", "get_scan", "get_apply",
               "delete_cs", "len_cs", "stats_cs"}

\* C14: every result a call returns is the result the same call returns when
\* the operations run one at a time in the order of their c.mu.Lock(), and
\* whenever no goroutine is inside a critical section the cache is the cache
\* of that sequential run, although the keys were encoded before the lock.
C14_Linearizable ==
    /\ last.res = last.exp
    /\ (\A t \in Threads : ~InCS(t)) => c = lin.c

\* a Get has hit and returned; its key was encoded while the other goroutine
\* held the mutex
C14_Witness ==
    /\ last.op = "get" /\ last.res.ok /\ last.busy
    /\ c.sets >= 1 /\ c.hits = 1

\* C15: a goroutine inside Encode, or holding the symbol table's lock, does
\* not hold c.mu; a goroutine inside a critical section has finished its
\* Encode; the goroutine inside a critical section is the holder of c.mu,
\* and there is at most one.
C15_EncodeOutsideMutex ==
    /\ \A t \in Threads : InEncode(t) => mu # t
    /\ \A t \in Threads : (t \in sym.readers \/ sym.writer = t) => (InEncode(t) /\ mu # t)
    /\ \A t \in Threads : InCS(t) => (mu = t /\ arg[t].todo = <<>>)
    /\ \A t, u \in Threads : (InCS(t) /\ InCS(u)) => t = u

\* one goroutine is inside a critical section while the other holds the
\* symbol table's write lock inside Encode
C15_Witness ==
    \E t, u \in Threads : InCS(t) /\ mu = t /\ sym.writer = u /\ InEncode(u)

\* goroutine t is inside a call or holds one of the locks
Busy(t) ==
    pc[t] # "idle" \/ mu = t \/ sym.writer = t \/ t \in sym.readers

\* C16: under fair scheduling every call that was invoked returns, and the
\* goroutine gives back the cache mutex and the symbol table's read and
\* write locks it took.
C16_EveryCallReturns ==
    \A t \in Threads : Busy(t) ~> ~Busy(t)

\* a goroutine waits for the symbol table's write lock while the other one
\* holds the read lock, and a goroutine waits for c.mu while the other holds it
C16_Witness ==
    \E t, u \in Threads :
        \/ pc[t] = "sym_lock" /\ u \in sym.readers /\ nops = StepOps
        \/ pc[t] = "lock" /\ mu = u /\ u # t /\ sym.table # <<>>

\* the bits of v beyond position v.dims - 1 are zero, and v has the words
\* of its dimension
Padded(v) ==
    /\ Len(v.data) = numWords(v.dims)
    /\ \A i \in v.dims..(Len(v.data) * WordBits - 1) : BitAt(v, i) = 0

\* C24: every vector New, FromWords, Random, Clone, Permute, Bind, Bundle and
\* Encode return has dimension at least 1 and zero bits at the positions
\* from its dimension on, the operands having them too.
C24_PaddingZero ==
    (last.op # "none" /\ last.op # "similarity" /\ last.out.ok)
        => (last.out.v.dims >= 1 /\ Padded(last.out.v))

\* FromWords was handed two words with every bit set for a dimension of one
\* bit more than a word, and cleared all but the lowest bit of the last word
C24_Witness ==
    /\ last.op = "fromwords" /\ last.out.ok
    /\ last.d = WordBits + 1
    /\ last.ws = <<Pow2(WordBits) - 1, Pow2(WordBits) - 1>>
    /\ last.out.v.data = <<Pow2(WordBits) - 1, 1>>

\* the vectors handed to Bundle by the last call
BundleVecs == [i \in 1..Len(last.s) |-> arg[last.s[i]]]

\* C25: bit i of Bundle(v1..vk) is 1 iff more than floor(k/2) of the vi have
\* bit i set (a tie gives 0); Bundle(v) = v and Bundle(v, v, v) = v.
C25_BundleMajority ==
    (last.op = "bundle" /\ last.out.ok) =>
        LET k == Len(last.s)
            D == BundleVecs[1].dims
        IN  /\ last.out.v.dims = D
            /\ \A i \in 0..(D - 1) :
                  (BitAt(last.out.v, i) = 1) <=>
                  (Cardinality({j \in 1..k : BitAt(BundleVecs[j], i) = 1}) > k \div 2)
            /\ last.s = <<"x">> => last.out.v = arg.x
            /\ last.s = <<"x", "x", "x">> => last.out.v = arg.x

\* Bundle(x, y, y, x) of two vectors of more than one word: at bit 0 two of
\* the four have a 1 and the result has a 0
C25_Witness ==
    /\ last.op = "bundle" /\ last.out.ok
    /\ last.s = <<"x", "y", "y", "x">>
    /\ arg.x.dims = WordBits + 1
    /\ BitAt(arg.x, 0) = 1 /\ BitAt(arg.y, 0) = 0 /\ BitAt(last.out.v, 0) = 0
    /\ BitAt(arg.x, WordBits) = 1 /\ BitAt(arg.y, WordBits) = 1
    /\ BitAt(last.out.v, WordBits) = 1

\* C26: Bind(Bind(x, y), y) = x, Bind(x, y) = Bind(y, x), and a call of Bind
\* leaves its operands as they were.
C26_BindSelfInverseCommutative ==
    /\ [](/\ (last.op = "bindagain") => (last.out.ok /\ last.out.v = arg.x)
          /\ (last.op = "bind" /\ last.out.ok) => (last.out.v = Bind(arg.y, arg.x)))
    /\ [][(last'.op \in {"bind", "bindagain"}) => (arg' = arg)]_vars

\* Bind(Bind(x, y), y) has returned x, for x and y of more than one word
\* that differ and have a set bit in common
C26_Witness ==
    /\ last.op = "bindagain" /\ last.out.v = arg.x
    /\ arg.x.dims = WordBits + 1
    /\ arg.x # arg.y
    /\ BitAt(arg.x, WordBits) = 1 /\ BitAt(arg.y, WordBits) = 1

\* C27: after k calls of Permute bit i of the result is bit (i + k) mod D of
\* x (one call: out[i] = in[(i+1) mod D]), in one word and in several, for D
\* a multiple of the word or not; after D calls the result is x.
C27_PermuteCyclicShift ==
    (last.op = "permute") =>
        LET D == arg.x.dims
        IN  /\ last.out.v.dims = D
            /\ \A i \in 0..(D - 1) : BitAt(last.out.v, i) = BitAt(arg.x, (i + last.k) % D)
            /\ last.k = D => last.out.v = arg.x

\* a vector of one bit more than a word, with bit 0 set and the top bit
\* clear, was permuted once: bit 0 went to the top, across the word boundary
C27_Witness ==
    /\ last.op = "permute" /\ last.k = 1
    /\ arg.x.dims = WordBits + 1
    /\ BitAt(arg.x, 0) = 1 /\ BitAt(arg.x, WordBits) = 0
    /\ BitAt(last.out.v, WordBits) = 1

\* C28: the number h of differing positions Similarity counts is the number
\* of positions below D where x and y differ and lies in 0..D, so D - h, the
\* similarity in units of 1/D, lies in 0..D; it is D exactly when x = y and
\* 0 exactly when y has the other bit at every position below D.
C28_SimilarityRange ==
    (last.op = "similarity" /\ last.out.ok) =>
        LET D == arg.x.dims
            h == D - last.out.sim
            differ == {i \in 0..(D - 1) : BitAt(arg.x, i) # BitAt(arg.y, i)}
        IN  /\ h = Cardinality(differ)
            /\ h \in 0..D
            /\ last.out.sim \in 0..D
            /\ (last.out.sim = D) <=> (arg.x = arg.y)
            /\ (last.out.sim = 0) <=> (differ = 0..(D - 1))

\* x and its complement, of one bit more than a word: similarity 0
C28_Witness ==
    /\ last.op = "similarity" /\ last.out.ok /\ last.out.sim = 0
    /\ arg.x.dims = WordBits + 1
    /\ BitAt(arg.x, WordBits) = 1 /\ BitAt(arg.x, 0) = 0

\* ceil(d / WordBits) for d >= 1
CeilWords(d) == CHOOSE n \in 1..d : n * WordBits >= d /\ (n - 1) * WordBits < d

\* C29: Bind, Bundle and Similarity panic when two of their arguments differ
\* in dimension, Bundle panics on no argument, New and FromWords panic on a
\* dimension below 1, FromWords on a slice whose length is not ceil(D/W);
\* a call that panics returns no vector.
C29_RejectsViolations ==
    /\ (last.op \in {"bind", "similarity"} /\ arg.x.dims # arg.y.dims) => ~last.out.ok
    /\ (last.op = "bundle" /\ last.s = <<>>) => ~last.out.ok
    /\ (last.op = "bundle" /\ \E i, j \in 1..Len(last.s) :
                                  BundleVecs[i].dims # BundleVecs[j].dims) => ~last.out.ok
    /\ (last.op \in {"new", "fromwords"} /\ last.d <= 0) => ~last.out.ok
    /\ (last.op = "fromwords" /\ last.d >= 1 /\ Len(last.ws) # CeilWords(last.d))
           => ~last.out.ok
    /\ ~last.out.ok => (last.out.v = NoVec /\ last.out.panic # "")

\* Bundle(x, x, y) has panicked, x and y being of one word each and of
\* different dimensions
C29_Witness ==
    /\ last.op = "bundle" /\ last.s = <<"x", "x", "y">>
    /\ arg.x.dims # arg.y.dims
    /\ Len(arg.x.data) = Len(arg.y.data)
    /\ last.out.panic = "hdc: dimension mismatch"

\* C23 as stated: a text and its variant in letter case, in the length of a
\* whitespace run, in the kind of a whitespace code point or in leading and
\* trailing whitespace encode to the same vector, and normalizeSegment
\* returns a normalized sentence unchanged.
C23_AnyWhitespaceKind ==
    /\ last.op \in {"case", "run", "kind", "ends"} => last.a = last.b
    /\ last.op = "normalize" => last.n2 = last.n1

\* C23, amended: as above, the kind of a whitespace code point being changed
\* between code points other than the line feed, which ends a sentence.
C23_NormalizationInvariant ==
    /\ last.op \in {"case", "run", "ends"} => last.a = last.b
    /\ (last.op = "kind" /\ last.from # 10 /\ last.to # 10) => last.a = last.b
    /\ last.op = "normalize" => last.n2 = last.n1

\* "a A" and "a<no-break space>A" have been encoded to the same vector, which
\* is not the vector of "aA"
C23_Witness ==
    /\ last.op = "kind"
    /\ arg.text = <<97, 32, 65>> /\ last.variant = <<97, 160, 65>>
    /\ last.a = last.b
    /\ last.a # Encode(arg.cfg, <<97, 65>>)

\* the ids of the whole text, [CLS] first, before truncation and [SEP]
AllIDs == wordsLoop(Tokenizer, Fields(preprocess(arg.text)), 1, <<clsTokenID>>)

\* C30 as stated: for every text and every maxLen > 0 the ids begin with
\* [CLS], end with [SEP] and are at most maxLen; with maxLen = 0 nothing is
\* cut and the empty text gives [CLS][SEP].
C30_FramedForEveryMaxLen ==
    (last.op = "tokenize") =>
        LET ids == last.res.InputIDs
        IN  /\ arg.maxLen > 0 => /\ ids[1] = clsTokenID
                                 /\ ids[Len(ids)] = sepTokenID
                                 /\ Len(ids) <= arg.maxLen
            /\ arg.maxLen = 0 => ids = Append(AllIDs, sepTokenID)
            /\ (arg.maxLen = 0 /\ arg.text = <<>>) => ids = <<clsTokenID, sepTokenID>>

\* C30, amended: the same for every maxLen >= 2, the ids being [CLS] and the
\* first ids of the text that fit, then [SEP]; maxLen = 1 gives [SEP] alone.
C30_TokenizeFramed ==
    (last.op = "tokenize") =>
        LET ids == last.res.InputIDs
        IN  /\ arg.maxLen >= 2 =>
                  /\ ids[1] = clsTokenID
                  /\ ids[Len(ids)] = sepTokenID
                  /\ Len(ids) <= arg.maxLen
                  /\ \E n \in 1..Len(AllIDs) : ids = Append(SubSeq(AllIDs, 1, n), sepTokenID)
                  /\ Len(AllIDs) < arg.maxLen => ids = Append(AllIDs, sepTokenID)
            /\ arg.maxLen = 1 => ids = <<sepTokenID>>
            /\ arg.maxLen = 0 => ids = Append(AllIDs, sepTokenID)
            /\ (arg.maxLen = 0 /\ arg.text = <<>>) => ids = <<clsTokenID, sepTokenID>>

\* "abc." has four ids with [CLS]; Tokenize with maxLen 3 has returned
\* [CLS], the id of "ab" and [SEP]
C30_Witness ==
    /\ last.op = "tokenize"
    /\ arg.text = <<97, 98, 99>> /\ arg.maxLen = 3
    /\ Len(AllIDs) = 3
    /\ last.res.InputIDs = <<clsTokenID, 104, sepTokenID>>

\* the words the caller of goroutine t holds now
Held(t) == Deref(c, sym[arg[t].enc], done[t].ref)

\* C21: Encode is deterministic: two calls with the same text return the
\* same words, whether on one encoder or on two of the same Config, however
\* full the symbol table was when each ran.
C21_EncodeDeterministic ==
    \A t1, t2 \in Threads :
        (done[t1].returned /\ done[t2].returned /\ arg[t1].text = arg[t2].text)
            => done[t1].snap = done[t2].snap

\* both calls have returned a vector that is not zero, of the same text on
\* two encoders whose symbol tables are not equally full
C21_Witness ==
    /\ done[1].returned /\ done[2].returned
    /\ arg[1].text = arg[2].text
    /\ arg[1].enc # arg[2].enc
    /\ DOMAIN sym[1] # DOMAIN sym[2]
    /\ done[1].snap # ZeroWords(PoolCfg.Dims)

\* C22: the pool never contaminates a result: a vector that Encode has
\* returned keeps its words whatever calls run afterwards or at the same
\* time, and they are the words of the text encoded alone, even when the
\* call ran on recycled buffers.
C22_PoolNeverContaminates ==
    \A t \in Threads :
        done[t].returned => /\ Held(t) = done[t].snap
                            /\ done[t].snap = PoolEnc[arg[t].text].data

\* two calls on one encoder with different texts have returned, and a
\* buffer with the bits of an earlier use has been handed out again
C22_Witness ==
    /\ done[1].returned /\ done[2].returned
    /\ arg[1].enc = arg[2].enc
    /\ arg[1].text # arg[2].text
    /\ nops = 1

\* C32 as stated: the seed of the symbol vector of code point r under the
\* encoder seed s is s XOR (r * 2654435761 + 1), wrapping.
C32_SeedXorOfSum ==
    (last.op = "seed") =>
        last.out = XorW(arg.seed, ((arg.r * KnuthMul) + 1) % Pow2(SeedBits), SeedBits)

\* C32, amended: the seed is (s XOR (r * 2654435761)) + 1, wrapping: taking
\* 1 off the seed and XORing s away leaves the product, and for s = 0 the
\* seed is the product plus 1.
C32_SeedSumOfXor ==
    (last.op = "seed") =>
        /\ last.out \in 0..(Pow2(SeedBits) - 1)
        /\ XorW((last.out + Pow2(SeedBits) - 1) % Pow2(SeedBits), arg.seed, SeedBits)
              = (arg.r * KnuthMul) % Pow2(SeedBits)
        /\ arg.seed = 0 => last.out = ((arg.r * KnuthMul) + 1) % Pow2(SeedBits)

\* the seed of "a" under encoder seed 1 has been computed, and the two
\* readings of the expression differ on it
C32_Witness ==
    /\ last.op = "seed"
    /\ arg.seed = 1 /\ arg.r = 97
    /\ last.out # XorW(1, ((97 * KnuthMul) + 1) % Pow2(SeedBits), SeedBits)

\* the chunks visited so far are those at offsets 0, stride, 2*stride, ...,
\* each of length min(size, len - offset), none before the last one ending
\* at len, and a chunk was taken iff it has ngram runes or is the first
ChunkVisits ==
    LET ch == last.chunks
        stride == arg.size \div 2
    IN  /\ \A i \in 1..Len(ch) :
              /\ ch[i].start = (i - 1) * stride
              /\ ch[i].end - ch[i].start = Min(arg.size, arg.len - ch[i].start)
              /\ ch[i].take <=> ((ch[i].end - ch[i].start) >= arg.ngram \/ i = 1)
              /\ i < Len(ch) => ch[i].end < arg.len
        /\ pc.at \in {"ret", "done"} =>
              /\ Len(ch) >= 1
              /\ ch[Len(ch)].end = arg.len
        /\ pc.at = "loop" /\ Len(ch) >= 1 => ch[Len(ch)].end < arg.len

\* C34: for a chunk size >= 2, an n-gram size >= 1 and a non-empty rune
\* sequence the chunk loop terminates, and it visits exactly the chunks at
\* offsets 0, size/2, 2*(size/2), ..., each of length min(size, len - offset),
\* stopping at the first chunk that ends at len; a chunk contributes iff it
\* has at least ngram runes or is the first chunk.
C34_ChunkLoopTerminates ==
    /\ []ChunkVisits
    /\ <>(pc.at = "done")

\* the loop has returned after three chunks, the last of them skipped
C34_Witness ==
    /\ pc.at = "done"
    /\ Len(last.chunks) = 3
    /\ ~last.chunks[3].take
    /\ last.chunks[2].take

\* C35: skipping a tail chunk shorter than the n-gram size loses no content:
\* once the loop has returned, every rune position lies in at least one
\* chunk that contributed, for every accepted configuration.
C35_EveryRuneCovered ==
    (pc.at = "done") =>
        \A p \in 0..(arg.len - 1) :
            \E i \in 1..Len(last.chunks) :
                /\ last.chunks[i].take
                /\ last.chunks[i].start <= p
                /\ p < last.chunks[i].end

\* C33: pool accounting: when Encode returns, every word buffer and every
\* count buffer the call got from the pool (window results, scratch, counts,
\* the vectors of the sentences and of the chunks) has been put back, but
\* for exactly one: the word buffer of the returned vector.
C33_AllBuffersReturned ==
    \A t \in Threads :
        done[t].returned =>
            /\ recency[t].counts = {}
            /\ recency[t].words \subseteq {done[t].ref.id}

\* the instructions that write the words of their destination
WriteOps == {"copySym", "permuteInto", "bindInto", "bundleInto"}

\* C38: the word buffer of a vector that Encode returned is in no pool and
\* is held by no other call, so it is never handed out again; no call is
\* about to write it, a write going to a heap buffer the writing call holds
\* and never to a vector of the symbol table; the returned words and the
\* symbol vectors stay what they were.
C38_ResultNeverRecycled ==
    /\ \A t \in Threads :
          done[t].returned =>
              /\ done[t].ref.kind = "buf"
              /\ \A e \in PoolEncoders : done[t].ref.id \notin mu[e].words
              /\ \A u \in Threads \ {t} :
                    /\ done[t].ref.id \notin recency[u].words
                    /\ (pc[u].prog # <<>> /\ Cur(u).op \in WriteOps)
                          => pc[u].regs[Cur(u).dst] # done[t].ref
              /\ c.words[done[t].ref.id] = done[t].snap
    /\ \A t \in Threads :
          (pc[t].prog # <<>> /\ Cur(t).op \in WriteOps) =>
              /\ pc[t].regs[Cur(t).dst].kind = "buf"
              /\ pc[t].regs[Cur(t).dst].id \in recency[t].words
    /\ \A e \in PoolEncoders : \A r \in DOMAIN sym[e] :
          sym[e][r] = Random(PoolCfg.Dims, symSeed(PoolCfg.Seed, r))

\* two calls on one encoder have returned two different buffers, the pool
\* holds buffers put back, and a buffer was handed out a second time
C38_Witness ==
    /\ done[1].returned /\ done[2].returned
    /\ arg[1].enc = arg[2].enc
    /\ done[1].ref.id # done[2].ref.id
    /\ mu[arg[1].enc].words # {}
    /\ nops = 1
    /\ DOMAIN sym[arg[1].enc] # {}

\* the window "ab" as the functional revision binds it
WindowAB == Bind(symGet(PoolCfg, 97), Permute(symGet(PoolCfg, 98)))

SymTableOnce ==
    /\ \A r \in SymRunes : sym.stores[r] <= 1
    /\ \A r \in SymRunes : (sym.stores[r] = 1) <=> (r \in DOMAIN sym.table)
    /\ sym.writer # 0 => sym.readers = {}
    /\ \A t \in Threads : \A i \in 1..Len(done[t]) :
          /\ done[t][i].r \in DOMAIN sym.table
          /\ done[t][i].v = sym.table[done[t][i].r]

\* what holds of every step: no entry of the table is replaced or removed
SymTableGrows ==
    \A r \in DOMAIN sym.table :
        /\ r \in DOMAIN sym'.table
        /\ sym'.table[r] = sym.table[r]

\* C37: the symbol table is safe under concurrent first access: a code
\* point is inserted at most once, every lookup of a code point returns the
\* same vector, entries are never replaced or removed, the table only grows.
C37_SymbolTableInsertOnce ==
    /\ []SymTableOnce
    /\ [][SymTableGrows]_vars

\* both goroutines missed "a" under the read lock; one stored it and the
\* other, having waited for the write lock, found it there and got the
\* stored vector
C37_Witness ==
    /\ last = [op |-> "store", t |-> 2]
    /\ Len(done[1]) = 1 /\ Len(done[2]) = 1
    /\ done[1][1].r = 97 /\ done[2][1].r = 97
    /\ sym.stores[97] = 1
    /\ done[1][1].v = done[2][1].v

\* C31: a Get that fails with a dimension mismatch while it scans does not
\* mutate the cache: the step in which it panics leaves the entries, the LRU
\* order and the counters as they were and releases the mutex, and a
\* goroutine that panicked never holds the mutex, so later operations are
\* not blocked.
C31_PanicLeavesCacheAlone ==
    /\ [](\A t \in Threads : pc[t] = "panicked" => mu # t)
    /\ [][\A t \in Threads :
             (pc[t] = "get_cs" /\ pc'[t] = "panicked") => (c' = c /\ mu' = 0)]_vars

\* the Get of goroutine 1 panicked on a cache holding an entry; afterwards
\* goroutine 2 took the mutex and its own Get hit
C31_Witness ==
    /\ pc[1] = "panicked"
    /\ last.op = "get" /\ last.ok
    /\ Len(c.lru) >= 1
    /\ mu = 0

\* C39: the transformer Encode never reports an inference failure: whenever
\* Embed returns an error Encode returns the all-zero vector of the
\* configured binary dimension; and tokenization followed by padding yields
\* three arrays of exactly maxSeqLen entries, the attention mask 1 on the
\* first seqLen positions and 0 on the rest, which hold [PAD].
C39_ZeroVectorOnError ==
    /\ (last.op = "encode" /\ last.err # "nil") =>
          /\ last.vec.dims = arg.binaryDims
          /\ Len(last.vec.data) = (arg.binaryDims + WordBits - 1) \div WordBits
          /\ \A i \in 1..Len(last.vec.data) : last.vec.data[i] = 0
    /\ last.op \in {"pad", "encode"} =>
          /\ Len(last.tokens.InputIDs) = arg.maxSeqLen
          /\ Len(last.tokens.AttentionMask) = arg.maxSeqLen
          /\ Len(last.tokens.TokenTypeIDs) = arg.maxSeqLen
          /\ last.seqLen \in 2..arg.maxSeqLen
          /\ \A i \in 1..arg.maxSeqLen :
                /\ last.tokens.AttentionMask[i] = (IF i <= last.seqLen THEN 1 ELSE 0)
                /\ i > last.seqLen => last.tokens.InputIDs[i] = padTokenID

\* the inference of a text that needed padding failed and Encode returned
C39_Witness ==
    /\ last.op = "encode"
    /\ last.err = "embed: ONNX inference failed"
    /\ last.seqLen = 3 /\ arg.maxSeqLen = 4
    /\ arg.binaryDims = Dims

\* C40: with the n-gram encoder, whenever the key k of a Get is in the index
\* the Get hits with similarity exactly 1.0; the value returned is that of
\* the most recently used entry whose vector equals encode(k), which is k's
\* own entry unless the entry of another key with the same vector was used
\* more recently, and that entry is moved to the front.
C40_StoredKeyHitsAtOne ==
    [][\A t \in Threads :
        (GetStep(t) /\ arg[t].key \in DOMAIN c.index) =>
            LET same == {i \in 1..Len(c.lru) : Entries(c)[i].vec = EncOf[arg[t].key]}
                own == PosOf(c, arg[t].key)
            IN  /\ own \in same
                /\ last'.ok
                /\ last'.sim = Dims
                /\ \E i \in same :
                      /\ \A j \in same : i <= j
                      /\ last'.ret = Entries(c)[i].value
                      /\ last'.hitKey = Entries(c)[i].key
                      /\ c'.lru[1] = c.lru[i]
                      /\ (last'.hitKey # arg[t].key) <=> (i < own)]_vars

\* "abc" and then "Abc" were stored, with different values; Get("abc") hit
\* the entry of "Abc", the more recent of the two, with similarity 1.0
C40_Witness ==
    /\ last.op = "get" /\ last.ok /\ last.sim = Dims
    /\ last.key = <<97, 98, 99>> /\ last.hitKey = <<65, 98, 99>>
    /\ last.key \in DOMAIN c.index
    /\ last.ret # c.elems[c.index[last.key]].value
    /\ c.threshold = Dims

====
